---- MODULE Spec2Model ----
(***************************************************************************)
(* Model of the problem build pipeline of jjs-pps                          *)
(* (engine/src/apis/compile/builder.rs) and of the drivers of the simple   *)
(* valuer (svaluer/src/main.rs).                                           *)
(*                                                                         *)
(* The specifications of this module:                                      *)
(*   SpecMerge   - the pure function merge_limits on bounded inputs        *)
(*   SpecEntropy - get_entropy_hex on a bounded buffer                     *)
(*   SpecScratch - concurrent do_build calls allocating scratch directories*)
(*   Spec        - one run of ProblemBuilder::build, bounded manifest      *)
(*   SpecFair    - Spec in which a build that can take a step takes one    *)
(*   SpecTerm    - calls of TermDriver::send_command / poll_notification   *)
(*   SpecJson    - JsonDriver and its reader thread over a bounded stdin   *)
(*   SpecJsonFair- SpecJson in which the reader thread keeps running       *)
(***************************************************************************)
EXTENDS Integers, Sequences, FiniteSets, TLC

VARIABLES
    limits_set,   \* SpecMerge: the slice handed to merge_limits
    merged,       \* SpecMerge: the value merge_limits returned
    merge_done,   \* SpecMerge: TRUE once merge_limits has returned
    entropy_len,  \* SpecEntropy: length of the buffer handed to get_entropy_hex
    random,       \* SpecEntropy: the bytes getrandom wrote into the buffer
    entropy_buf,  \* SpecEntropy: get_entropy_hex's `buf`
    entropy_i,    \* SpecEntropy: elements the loop of get_entropy_hex has done
    entropy_pc,   \* SpecEntropy: position of get_entropy_hex in its body
    clock,        \* SpecScratch: SystemTime::now() in microseconds
    tmp_dirs,     \* SpecScratch: the /tmp/pps-build-<id> directories that exist
    tmp_before,   \* SpecScratch: those that existed before the first call
    task_pc,      \* SpecScratch: position of each do_build call in its body
    task_id,      \* SpecScratch: `build_id` of each do_build call
    handed,       \* SpecScratch: the Tasks given to process_task, in order
    cfg,          \* ProblemBuilder.cfg: the problem manifest
    problem_dir,  \* content of ProblemBuilder.problem_dir, the source tree
    pc,           \* position of build() in its body
    pending,      \* paths the current glob loop has still to visit
    solutions,    \* build(): `solutions` map, id -> Command
    testgens,     \* build(): `testgen_launch_info` map, name -> Command
    checker_ref,  \* build(): `checker_ref`
    gen_answers,  \* build(): `gen_answers` handed to build_tests
    idx,          \* build_tests(): loop index `i` (0-based)
    test_info,    \* build_tests(): `test_info` of the current test
    close_handles,\* build_tests(): `close_handles` of the current test
    out,          \* build_tests(): `out`, the Test records produced so far
    files,        \* content of the output directory, path -> bytes
    open_fds,     \* raw descriptors the process holds open
    trace,        \* ordered log of progress events, spawns and file actions
    started,      \* stages of build() that were started, in order
    completed,    \* stages of build() that returned Ok, in order
    result,       \* what build() returned (or that it is still running)
    current_tests,  \* TermDriver.current_tests
    full_judge_log, \* TermDriver.full_judge_log
    term_pc,      \* SpecTerm: position inside TermDriver::poll_notification
    term_tid,     \* SpecTerm: the `tid` poll_notification reads the status of
    term_before,  \* SpecTerm: current_tests when the last call was made
    term_ret,     \* SpecTerm: the last call and what it returned
    requested,    \* SpecTerm: the test ids of the Test commands accepted
    reported,     \* SpecTerm: the notifications poll_notification returned
    stdin_rest,   \* SpecJson: the lines of standard input not yet read
    stdin_end,    \* SpecJson: what read_line answers after the last line
    lines_read,   \* SpecJson: the lines the reader thread has read, in order
    reader_pc,    \* SpecJson: position of json_driver_thread_func in its body
    buf,          \* json_driver_thread_func: the line buffer
    notify,       \* json_driver_thread_func: the parsed message in hand
    chan,         \* the messages in the crossbeam channel, oldest first
    receiver_alive, \* FALSE once the JsonDriver (the Receiver) was dropped
    delivered,    \* SpecJson: the messages JsonDriver::poll returned, in order
    json_pc,      \* SpecJson: position of the JsonDriver call in progress
    elapsed,      \* problem_info: milliseconds since begin_time
    json_ret      \* SpecJson: the last JsonDriver call and what it returned

vars == << limits_set, merged, merge_done, entropy_len, random, entropy_buf,
           entropy_i, entropy_pc, clock, tmp_dirs, tmp_before, task_pc,
           task_id, handed, cfg, problem_dir, pc, pending, solutions,
           testgens, checker_ref, gen_answers, idx, test_info, close_handles,
           out, files, open_fds, trace, started, completed, result,
           current_tests, full_judge_log, term_pc, term_tid, term_before,
           term_ret, requested, reported, stdin_rest, stdin_end, lines_read,
           reader_pc, buf, notify, chan, receiver_alive, delivered, json_pc,
           elapsed, json_ret >>

mergeVars == << limits_set, merged, merge_done >>

entropyVars == << entropy_len, random, entropy_buf, entropy_i, entropy_pc >>

scratchVars == << clock, tmp_dirs, tmp_before, task_pc, task_id, handed >>

termVars == << current_tests, full_judge_log, term_pc, term_tid, term_before,
               term_ret, requested, reported >>

jsonVars == << stdin_rest, stdin_end, lines_read, reader_pc, buf, notify,
              chan, receiver_alive, delivered, json_pc, elapsed, json_ret >>

driverVars == << termVars, jsonVars >>

buildVars == << cfg, problem_dir, pc, pending, solutions, testgens, checker_ref,
                gen_answers, idx, test_info, close_handles, out, files,
                open_fds, trace, started, completed, result >>

----------------------------------------------------------------------------
(* Bounds *)

MaxLimitsLen == 2    \* longest slice handed to merge_limits in SpecMerge
MaxTests == 2        \* most tests a manifest declares
MaxLimitValue == 2   \* limit values range over 1..MaxLimitValue
MaxBufLen == 3       \* longest buffer handed to get_entropy_hex in SpecEntropy
NumTasks == 2        \* concurrent do_build calls in SpecScratch
MaxClock == 2        \* the clock of SpecScratch reads 0..MaxClock
MaxTestId == 2       \* SpecTerm: the valuer asks for tests 1..MaxTestId
MaxCommands == 3     \* SpecTerm: most Test commands the valuer sends
MaxLines == 3        \* SpecJson: most lines standard input holds

----------------------------------------------------------------------------
(* Option<T> *)

None == [some |-> FALSE]
Some(x) == [some |-> TRUE, val |-> x]
IsSome(o) == o.some

----------------------------------------------------------------------------
(* get_entropy_hex *)

Byte == 0..255

\* b'0' and b'a'
Ascii0 == 48
AsciiA == 97

\* the loop body with `<=` in place of `<`
hex_digit_le(b) ==
    LET r == b % 16
    IN IF r <= 10 THEN (r + Ascii0) % 256 ELSE (AsciiA + (r - 10)) % 256

\* the loop body: what one element of the buffer becomes (u8 arithmetic)
hex_digit(b) ==
    LET r == b % 16
    IN IF r < 10 THEN (r + Ascii0) % 256 ELSE (AsciiA + (r - 10)) % 256

\* the fills getrandom can return for a buffer of n bytes: every byte value
\* at every position, neighbours a fixed stride apart
RandomFills(n) ==
    { [k \in 1..n |-> (s + t * (k - 1)) % 256] : s \in Byte, t \in {1, 37} }

EntropyIdle ==
    /\ entropy_len = 0
    /\ random = << >>
    /\ entropy_buf = << >>
    /\ entropy_i = 0
    /\ entropy_pc = "idle"

\* getrandom::getrandom(buf).expect("get entropy failed")
GetRandom ==
    /\ entropy_pc = "getrandom"
    /\ \E o \in {"ok", "failed"} :
         IF o = "ok"
         THEN /\ random' \in RandomFills(entropy_len)
              /\ entropy_buf' = random'
              /\ entropy_pc' = "loop"
         ELSE /\ entropy_pc' = "panic"
              /\ UNCHANGED << random, entropy_buf >>
    /\ UNCHANGED << entropy_len, entropy_i, mergeVars, scratchVars, buildVars, driverVars >>

\* one iteration of `for i in buf.iter_mut()`
HexLoop ==
    /\ entropy_pc = "loop"
    /\ entropy_i < Len(entropy_buf)
    /\ entropy_buf' = [entropy_buf EXCEPT ![entropy_i + 1] = hex_digit(@)]
    /\ entropy_i' = entropy_i + 1
    /\ UNCHANGED << entropy_len, random, entropy_pc, mergeVars, scratchVars,
                    buildVars, driverVars >>

\* the iterator is exhausted: get_entropy_hex returns
HexReturn ==
    /\ entropy_pc = "loop"
    /\ entropy_i = Len(entropy_buf)
    /\ entropy_pc' = "done"
    /\ UNCHANGED << entropy_len, random, entropy_buf, entropy_i, mergeVars,
                    scratchVars, buildVars, driverVars >>

NextEntropy == GetRandom \/ HexLoop \/ HexReturn

----------------------------------------------------------------------------
(* pom::Limits and merge_limits *)

LimitValues == {None} \cup {Some(v) : v \in 1..MaxLimitValue}

LimitsSet == [memory : LimitValues, time : LimitValues,
              process_count : LimitValues]

LimitsDefault == [memory |-> None, time |-> None, process_count |-> None]

\* a merge that never overwrites a value already in place
merge_option_keep_first(place, other) ==
    IF IsSome(place) THEN place ELSE other

merge_option(place, other) ==
    IF IsSome(other) THEN Some(other.val) ELSE place

RECURSIVE merge_limits_loop(_, _)
merge_limits_loop(res, rest) ==
    IF rest = << >> THEN res
    ELSE LET lim == Head(rest)
         IN merge_limits_loop(
                [memory |-> merge_option(res.memory, lim.memory),
                 process_count |-> merge_option(res.process_count,
                                                lim.process_count),
                 time |-> merge_option(res.time, lim.time)],
                Tail(rest))

merge_limits(ls) == merge_limits_loop(LimitsDefault, ls)

----------------------------------------------------------------------------
(* SpecMerge: merge_limits applied to every slice of at most MaxLimitsLen  *)
(* Limits                                                                  *)

RECURSIVE SeqsUpTo(_, _)
SeqsUpTo(S, n) ==
    IF n = 0 THEN { << >> }
    ELSE LET shorter == SeqsUpTo(S, n - 1)
         IN shorter \cup { Append(s, x) : s \in shorter, x \in S }

EmptyMap == [k \in {} |-> None]

Tasks == 1..NumTasks

ScratchIdle ==
    /\ clock = 0
    /\ tmp_dirs = {}
    /\ tmp_before = {}
    /\ task_pc = [t \in Tasks |-> "idle"]
    /\ task_id = [t \in Tasks |-> 0]
    /\ handed = << >>

\* TermDriver { current_tests: HashSet::new(), full_judge_log: None }
TermIdle ==
    /\ current_tests = {}
    /\ full_judge_log = None
    /\ term_pc = "off"
    /\ term_tid = 0
    /\ term_before = {}
    /\ term_ret = [call |-> "none"]
    /\ requested = << >>
    /\ reported = << >>

\* main_json_mode was not entered: no JsonDriver, no reader thread
JsonIdle ==
    /\ stdin_rest = << >>
    /\ stdin_end = "eof"
    /\ lines_read = << >>
    /\ reader_pc = "off"
    /\ buf = ""
    /\ notify = [some |-> FALSE]
    /\ chan = << >>
    /\ receiver_alive = FALSE
    /\ delivered = << >>
    /\ json_pc = "off"
    /\ elapsed = 0
    /\ json_ret = [call |-> "none"]

DriverIdle == TermIdle /\ JsonIdle

MergeIdle ==
    /\ limits_set = << >>
    /\ merged = LimitsDefault
    /\ merge_done = FALSE

BuildIdle ==
    /\ cfg = None
    /\ problem_dir = None
    /\ pc = "idle"
    /\ pending = << >>
    /\ solutions = EmptyMap
    /\ testgens = EmptyMap
    /\ checker_ref = None
    /\ gen_answers = None
    /\ idx = 0
    /\ test_info = None
    /\ close_handles = << >>
    /\ out = << >>
    /\ files = EmptyMap
    /\ open_fds = EmptyMap
    /\ trace = << >>
    /\ started = << >>
    /\ completed = << >>
    /\ result = [status |-> "idle"]

InitMerge ==
    /\ limits_set \in SeqsUpTo(LimitsSet, MaxLimitsLen)
    /\ merged = LimitsDefault
    /\ merge_done = FALSE
    /\ EntropyIdle
    /\ ScratchIdle
    /\ BuildIdle
    /\ DriverIdle

MergeLimits ==
    /\ pc = "idle"
    /\ ~merge_done
    /\ merged' = merge_limits(limits_set)
    /\ merge_done' = TRUE
    /\ UNCHANGED limits_set
    /\ UNCHANGED << entropyVars, scratchVars, buildVars, driverVars >>

NextMerge == MergeLimits

SpecMerge == InitMerge /\ [][NextMerge]_vars

LimitFields == {"memory", "time", "process_count"}

\* positions of ls whose field f is present
PresentAt(ls, f) == { k \in 1..Len(ls) : IsSome(ls[k][f]) }

LastPresent(ls, f) ==
    IF PresentAt(ls, f) = {} THEN None
    ELSE LET last == CHOOSE k \in PresentAt(ls, f) :
                         \A j \in PresentAt(ls, f) : j <= k
         IN ls[last][f]

\* C1: merge_limits(L) carries, for each of memory, time and process_count
\* independently, the value of the last element of L in which the field is
\* present, and the field is absent when it is absent in every element.
C1_MergeLastPresent ==
    merge_done => \A f \in LimitFields : merged[f] = LastPresent(limits_set, f)

\* a two-element slice in which memory is overridden, time is inherited from
\* the first element and process_count is absent throughout
C1_Witness ==
    /\ merge_done
    /\ Len(limits_set) = 2
    /\ IsSome(limits_set[1].memory) /\ IsSome(limits_set[2].memory)
    /\ limits_set[1].memory /= limits_set[2].memory
    /\ merged.memory = limits_set[2].memory
    /\ IsSome(limits_set[1].time) /\ ~IsSome(limits_set[2].time)
    /\ merged.time = limits_set[1].time
    /\ ~IsSome(limits_set[1].process_count)
    /\ ~IsSome(limits_set[2].process_count)
    /\ merged.process_count = None

----------------------------------------------------------------------------
(* The problem source tree and the manifests the build is run on           *)

Path(parent, stem, ext) == [parent |-> parent, stem |-> stem, ext |-> ext]

\* Path::file_stem / Path::file_name: None only for a path ending in `..`
file_stem(p) == IF p.stem = ".." THEN None ELSE Some(p.stem)
file_name(p) == IF p.stem = ".." THEN None ELSE Some(p.stem \o "." \o p.ext)
display(p) == p.parent \o "/" \o p.stem \o "." \o p.ext

\* what glob::glob yields for each pattern of the problem directory
GlobResult(suffix) ==
    CASE suffix = "solutions/*" -> problem_dir.solutions
      [] suffix = "generators/*" -> problem_dir.generators
      [] suffix = "modules/*" -> problem_dir.modules

\* fixtures under <problem_dir>/tests and their bytes
Fixtures == ("fixed.txt" :> "fixture-bytes")

\* a source tree whose file names are all text
NormalTree ==
    [solutions |-> << Path("solutions", "main", "cpp"),
                      Path("solutions", "wrong", "py") >>,
     generators |-> << Path("generators", "gen", "cpp") >>,
     modules |-> << Path("modules", "lib", "cpp") >>,
     tests |-> Fixtures]

\* file names that are not valid UTF-8
NonUtf8Names == {"caf<E9>", "caf<E9>.cpp"}

\* OsStr::to_str
to_str(s) == IF s \in NonUtf8Names THEN None ELSE Some(s)

\* the source trees a build is run on: the normal one, and one per stage
\* with a file whose name is not valid UTF-8
ProblemDirs ==
    { NormalTree,
      [NormalTree EXCEPT !.solutions =
           Append(@, Path("solutions", "caf<E9>", "cpp"))],
      [NormalTree EXCEPT !.generators =
           Append(@, Path("generators", "caf<E9>", "cpp"))],
      [NormalTree EXCEPT !.modules =
           Append(@, Path("modules", "caf<E9>", "cpp"))] }

\* every entry of the problem directory passes for a single file
ProblemDirIsFileAlways(p) == TRUE

\* Path::is_file on the entries of the problem directory a valuer_cfg may name
ProblemDirIsFile(p) == p = "valuer.yaml"

GenSpecs ==
    { [kind |-> "Generate", testgen |-> "gen", args |-> << "small" >>],
      [kind |-> "Generate", testgen |-> "gen", args |-> << "big" >>],
      [kind |-> "Generate", testgen |-> "missing", args |-> << >>],
      [kind |-> "File", path |-> "fixed.txt"],
      [kind |-> "File", path |-> "absent.txt"] }

\* the per-test part of a TestSpec that goes with each generation method
TestSpecOf(g) ==
    [gen |-> g,
     limits |-> IF g.kind = "File"
                THEN [memory |-> None, time |-> Some(2), process_count |-> None]
                ELSE IF g.args = << "big" >>
                THEN [memory |-> Some(2), time |-> None,
                      process_count |-> Some(2)]
                ELSE LimitsDefault,
     group |-> IF g.kind = "File" THEN "samples"
               ELSE IF g.args = << "big" >> THEN "big" ELSE "samples"]

TestSpecs == { TestSpecOf(g) : g \in GenSpecs }

Checks ==
    { [kind |-> "Custom", pass_correct |-> FALSE],
      [kind |-> "Custom", pass_correct |-> TRUE],
      [kind |-> "Builtin", name |-> "cmp-tokens"] }

Manifests ==
    [title : {"A + B"},
     name : {"a-plus-b"},
     limits : {[memory |-> Some(1), time |-> Some(1), process_count |-> None]},
     tests : SeqsUpTo(TestSpecs, MaxTests),
     check : Checks,
     check_options : {[args |-> << "--strict" >>]},
     primary_solution : {None, Some("main"), Some("nosuch")},
     valuer_cfg : {None, Some("/valuer.yaml"), Some("/valuer-dir")}]

\* the random seeds get_entropy_hex may produce
Entropies == {"0a", "f3"}

----------------------------------------------------------------------------
(* crate::command::Command                                                 *)

Command(exe) == [exe |-> exe, args |-> << >>, env |-> EmptyMap, cwd |-> ""]

arg(cmd, a) == [cmd EXCEPT !.args = Append(@, a)]
env(cmd, k, v) == [cmd EXCEPT !.env = (k :> v) @@ @]
current_dir(cmd, d) == [cmd EXCEPT !.cwd = d]

RECURSIVE args_loop(_, _)
args_loop(cmd, as) ==
    IF as = << >> THEN cmd ELSE args_loop(arg(cmd, Head(as)), Tail(as))

configure_command(cmd) ==
    env(env(current_dir(cmd, "<problem_dir>"),
            "JJS_PROBLEM_SRC", "<problem_dir>"),
        "JJS_PROBLEM_DEST", "<out_dir>")

\* the invocation layers its arguments on the template itself
template_after_alias(template, cmd) == cmd

\* `let mut cmd = template.clone()`: what the shared template is once the
\* clone has been layered into cmd
template_after_clone(template, cmd) == template

\* standard output of a testgen run: decided by its last argument and seed
GenStdout(cmd) ==
    (IF cmd.args = << >> THEN "" ELSE cmd.args[Len(cmd.args)])
        \o "#" \o cmd.env["JJS_RANDOM_SEED"]

\* standard output of the primary solution reading `input` on descriptor 0
SolutionStdout(input) == "answer(" \o input \o ")"

----------------------------------------------------------------------------
(* Paths in the output directory and progress events                       *)

ManifestPath == "manifest.json"

tests_path == "assets/tests"

\* the identifier is the 0-based loop index itself
test_id_zero_based(i) == i

test_id(i) == i + 1

\* the loop over cfg.tests takes the same test again
next_index_same(i) == i

\* `for (i, test_spec) in self.cfg.tests.iter().enumerate()`: the next turn
next_index(i) == i + 1

out_file_path(tid) == tests_path \o "/" \o ToString(tid) \o "-in.txt"

\* every reference answer lands in the file of test 1
correct_file_path_first(tid) == tests_path \o "/" \o ToString(1) \o "-out.txt"

correct_file_path(tid) == tests_path \o "/" \o ToString(tid) \o "-out.txt"

FileRef(path) == [path |-> path, root |-> "Problem"]

Event(e) == [op |-> "event", arg |-> e]
Spawn(what, tid, cmd) ==
    [op |-> "spawn", arg |-> [what |-> what, tid |-> tid, cmd |-> cmd]]
FileOp(what, path) == [op |-> what, arg |-> path]

Write(fs, path, data) == (path :> data) @@ fs

\* the fixture is moved into the output directory instead of copied
fs_move(src_fs, src, dst_fs, dst) ==
    [src_fs |-> [p \in DOMAIN src_fs \ {src} |-> src_fs[p]],
     dst_fs |-> Write(dst_fs, dst, src_fs[src])]

\* tokio::fs::copy(src, dst) returning Ok: dst holds the bytes of src
fs_copy(src_fs, src, dst_fs, dst) ==
    [src_fs |-> src_fs,
     dst_fs |-> Write(dst_fs, dst, src_fs[src])]

----------------------------------------------------------------------------
(* Results of build() and the `?` operator                                 *)

Running == [status |-> "running"]
Ok == [status |-> "ok"]
Err(stage, kind, detail) ==
    [status |-> "err", stage |-> stage, kind |-> kind, detail |-> detail]
Panic(stage, kind) ==
    [status |-> "panic", stage |-> stage, kind |-> kind]

StageOrder ==
    << "modules", "solutions", "testgens", "checker", "tests",
       "copy_raw", "copy_valuer", "manifest" >>

\* the checker is built before the testgens
StageAfterSwapped(stage) ==
    CASE stage = "modules" -> "solutions"
      [] stage = "solutions" -> "checker"
      [] stage = "checker" -> "testgens"
      [] stage = "testgens" -> "primary"
      [] stage = "primary" -> "tests"
      [] stage = "tests" -> "copy_raw"
      [] stage = "copy_raw" -> "copy_valuer"
      [] stage = "copy_valuer" -> "manifest"
      [] stage = "manifest" -> "returned"

\* the statement sequence of build(): what runs once `stage` returned Ok
StageAfter(stage) ==
    CASE stage = "modules" -> "solutions"
      [] stage = "solutions" -> "testgens"
      [] stage = "testgens" -> "checker"
      [] stage = "checker" -> "primary"
      [] stage = "primary" -> "tests"
      [] stage = "tests" -> "copy_raw"
      [] stage = "copy_raw" -> "copy_valuer"
      [] stage = "copy_valuer" -> "manifest"
      [] stage = "manifest" -> "returned"

\* an error is recorded but control falls through to the next statement
TryIgnore(ok, next) == next

\* `expr?`: continue at `next` on Ok, return from build() on Err
Try(ok, next) == IF ok THEN next ELSE "returned"

\* the Err is recorded and build goes on with what follows
RaiseAndGoOn(stage, kind, detail, next) ==
    /\ result' = Err(stage, kind, detail)
    /\ pc' = next

\* state change of an Err that reaches a `?` (or a bail!) in `stage`
Raise(stage, kind, detail, next) ==
    /\ result' = Err(stage, kind, detail)
    /\ pc' = Try(FALSE, next)

\* state change of a panic (expect/unwrap on Err or None)
Unwind(stage, kind) ==
    /\ result' = Panic(stage, kind)
    /\ pc' = "aborted"

Start(stage) == started' = Append(started, stage)

Finish(stage) ==
    /\ completed' = Append(completed, stage)
    /\ pc' = Try(TRUE, StageAfter(stage))

----------------------------------------------------------------------------
(* do_build: one delegated compilation                                     *)

DoBuildOutcomes ==
    {"ok", "create_dir_failed", "tmp_dir_exists", "exit_code_nonzero",
     "backend_error"}

\* what do_build(src, dest) does and returns when the environment answers o
do_build(fs, src, dest, o) ==
    [status |-> CASE o = "ok" -> "ok"
                  [] o = "tmp_dir_exists" -> "panic"
                  [] OTHER -> "err",
     kind |-> CASE o = "create_dir_failed" -> "io"
                [] o = "tmp_dir_exists" -> "couldn't create build dir"
                [] OTHER -> "build_task",
     detail |-> CASE o = "create_dir_failed" -> "failed to create dir"
                  [] o = "exit_code_nonzero" ->
                       "task execution error: --- stdout --- --- stderr ---"
                  [] OTHER -> "task execution error",
     ops |-> CASE o = "create_dir_failed" -> << FileOp("create_dir_all", dest) >>
               [] o = "tmp_dir_exists" ->
                    << FileOp("create_dir_all", dest),
                       FileOp("create_dir", "/tmp/pps-build") >>
               [] OTHER ->
                    << FileOp("create_dir_all", dest),
                       FileOp("create_dir", "/tmp/pps-build"),
                       FileOp("process_task", dest) >>,
     files |-> CASE o = "create_dir_failed" -> fs
                 [] o = "ok" -> Write(fs, dest, "<built>")
                 [] OTHER -> Write(fs, dest, "<dir>"),
     command |-> Command(dest \o "/bin")]

\* how the caller of do_build(..).await? goes on
AfterBuild(r, stage, next) ==
    CASE r.status = "ok" -> pc' = Try(TRUE, next) /\ UNCHANGED result
      [] r.status = "err" -> Raise(stage, r.kind, r.detail, next)
      [] r.status = "panic" -> Unwind(stage, r.kind)

----------------------------------------------------------------------------
(* do_build: the scratch directory of concurrent calls                     *)

\* format!("/tmp/pps-build-{}", &build_id)
build_dir(build_id) == "/tmp/pps-build-" \o ToString(build_id)

\* the directory is created along with its parents, existing or not
create_dir_all_tmp(dirs, d) == [ok |-> TRUE, dirs |-> dirs \cup {d}]

\* tokio::fs::create_dir: fails when the directory exists already
create_dir(dirs, d) ==
    IF d \in dirs
    THEN [ok |-> FALSE, dirs |-> dirs]
    ELSE [ok |-> TRUE, dirs |-> dirs \cup {d}]

\* the system clock moves between two reads (it may also be set back)
ClockStep ==
    /\ \E now \in 0..MaxClock : now /= clock /\ clock' = now
    /\ UNCHANGED << tmp_dirs, tmp_before, task_pc, task_id, handed,
                    mergeVars, entropyVars, buildVars, driverVars >>

\* tokio::fs::create_dir_all(dest).await.context("failed to create dir")?
DoBuild_dest(t) ==
    /\ task_pc[t] = "dest"
    /\ \E ok \in BOOLEAN :
         task_pc' = [task_pc EXCEPT ![t] = IF ok THEN "now" ELSE "err"]
    /\ UNCHANGED << clock, tmp_dirs, tmp_before, task_id, handed,
                    mergeVars, entropyVars, buildVars, driverVars >>

\* build_id = SystemTime::now().duration_since(UNIX_EPOCH).as_micros()
DoBuild_now(t) ==
    /\ task_pc[t] = "now"
    /\ task_id' = [task_id EXCEPT ![t] = clock]
    /\ task_pc' = [task_pc EXCEPT ![t] = "create_dir"]
    /\ UNCHANGED << clock, tmp_dirs, tmp_before, handed,
                    mergeVars, entropyVars, buildVars, driverVars >>

\* tokio::fs::create_dir(&build_dir).await.expect("couldn't create build dir")
DoBuild_create_dir(t) ==
    /\ task_pc[t] = "create_dir"
    /\ LET r == create_dir(tmp_dirs, build_dir(task_id[t]))
       IN /\ tmp_dirs' = r.dirs
          /\ task_pc' = [task_pc EXCEPT ![t] =
                             IF r.ok THEN "process_task" ELSE "panic"]
    /\ UNCHANGED << clock, tmp_before, task_id, handed,
                    mergeVars, entropyVars, buildVars, driverVars >>

\* self.build_backend.process_task(task.clone())
DoBuild_process_task(t) ==
    /\ task_pc[t] = "process_task"
    /\ handed' = Append(handed, [task |-> t, tmp |-> build_dir(task_id[t])])
    /\ task_pc' = [task_pc EXCEPT ![t] = "returned"]
    /\ UNCHANGED << clock, tmp_dirs, tmp_before, task_id,
                    mergeVars, entropyVars, buildVars, driverVars >>

NextScratch ==
    \/ ClockStep
    \/ \E t \in Tasks :
         \/ DoBuild_dest(t)
         \/ DoBuild_now(t)
         \/ DoBuild_create_dir(t)
         \/ DoBuild_process_task(t)

\* the calls are about to start; /tmp may hold directories of earlier runs
InitScratch ==
    /\ clock \in 0..MaxClock
    /\ tmp_before \in SUBSET { build_dir(d) : d \in 0..MaxClock }
    /\ tmp_dirs = tmp_before
    /\ task_pc = [t \in Tasks |-> "dest"]
    /\ task_id = [t \in Tasks |-> 0]
    /\ handed = << >>
    /\ MergeIdle
    /\ EntropyIdle
    /\ BuildIdle
    /\ DriverIdle

SpecScratch == InitScratch /\ [][NextScratch]_vars

\* C18: no two build tasks ever receive the same scratch directory: for any
\* interleaving of do_build calls, also two that read the same microsecond
\* timestamp, a task is handed to the build backend only with a scratch
\* directory that no earlier task was given and that did not exist before.
C18_ScratchDirsDistinct ==
    /\ \A i, j \in DOMAIN handed :
          i /= j => handed[i].tmp /= handed[j].tmp
    /\ \A i \in DOMAIN handed : handed[i].tmp \notin tmp_before

\* two calls read the same timestamp: one got the directory, the other
\* stopped at create_dir
C18_Witness ==
    /\ task_id[1] = task_id[2]
    /\ task_pc[1] = "returned"
    /\ task_pc[2] = "panic"
    /\ Len(handed) = 1
    /\ handed[1] = [task |-> 1, tmp |-> build_dir(task_id[1])]

----------------------------------------------------------------------------
(* build_modules, build_solutions, build_testgens                          *)

Init ==
    /\ MergeIdle
    /\ EntropyIdle
    /\ ScratchIdle
    /\ DriverIdle
    /\ cfg \in Manifests
    /\ problem_dir \in ProblemDirs
    /\ problem_dir /= NormalTree => cfg.tests = << >>
    /\ pc = "modules"
    /\ pending = << >>
    /\ solutions = EmptyMap
    /\ testgens = EmptyMap
    /\ checker_ref = None
    /\ gen_answers = None
    /\ idx = 0
    /\ test_info = None
    /\ close_handles = << >>
    /\ out = << >>
    /\ files = EmptyMap
    /\ open_fds = EmptyMap
    /\ trace = << >>
    /\ started = << >>
    /\ completed = << >>
    /\ result = Running

\* self.glob(suffix).await? at the head of a stage's loop
GlobStep(stage, suffix) ==
    /\ pc = stage
    /\ Start(stage)
    /\ trace' = Append(trace, FileOp("glob", suffix))
    /\ \E ok \in BOOLEAN :
         IF ok
         THEN /\ pending' = GlobResult(suffix)
              /\ pc' = Try(TRUE, stage \o "_loop")
              /\ UNCHANGED result
         ELSE /\ Raise(stage, "glob", "Glob error", stage \o "_loop")
              /\ UNCHANGED pending
    /\ UNCHANGED << mergeVars, entropyVars, scratchVars, driverVars, cfg, problem_dir, solutions, testgens, checker_ref,
                    gen_answers, idx, test_info, close_handles, out, files,
                    open_fds, completed >>

\* the loop of a stage has visited every path: the stage returns Ok
LoopDone(stage) ==
    /\ pc = stage \o "_loop"
    /\ pending = << >>
    /\ Finish(stage)
    /\ UNCHANGED << mergeVars, entropyVars, scratchVars, driverVars, cfg, problem_dir, pending, solutions, testgens, checker_ref,
                    gen_answers, idx, test_info, close_handles, out, files,
                    open_fds, trace, started, result >>

BuildModules_glob == GlobStep("modules", "modules/*")

BuildModules_item ==
    /\ pc = "modules_loop"
    /\ pending /= << >>
    /\ LET module == Head(pending)
           name == file_name(module)
           text == IF IsSome(name) THEN to_str(name.val) ELSE None
       IN IF ~IsSome(name)
          THEN /\ Unwind("modules", "called Option::unwrap() on a None value")
               /\ UNCHANGED << trace, files, pending >>
          ELSE IF ~IsSome(text)
          THEN /\ Unwind("modules", "utf8 error")
               /\ UNCHANGED << trace, files, pending >>
          ELSE LET module_name == text.val
                   output_path == "assets/module-" \o module_name
               IN \E o \in DoBuildOutcomes :
                    LET r == do_build(files, display(module), output_path, o)
                    IN /\ trace' = trace \o r.ops
                       /\ files' = r.files
                       /\ AfterBuild(r, "modules", "modules_loop")
                       /\ pending' = IF r.status = "ok" THEN Tail(pending)
                                     ELSE pending
    /\ UNCHANGED << mergeVars, entropyVars, scratchVars, driverVars, cfg, problem_dir, solutions, testgens, checker_ref,
                    gen_answers, idx, test_info, close_handles, out,
                    open_fds, started, completed >>

BuildModules_done == LoopDone("modules")

BuildSolutions_glob == GlobStep("solutions", "solutions/*")

BuildSolutions_item ==
    /\ pc = "solutions_loop"
    /\ pending /= << >>
    /\ LET sol_path == Head(pending)
           stem == file_stem(sol_path)
           text == IF IsSome(stem) THEN to_str(stem.val) ELSE None
       IN IF ~IsSome(stem)
          THEN /\ Raise("solutions", "bad_path",
                        "missing file stem on solution path", "solutions_loop")
               /\ UNCHANGED << trace, files, pending, solutions >>
          ELSE IF ~IsSome(text)
          THEN /\ Raise("solutions", "bad_path", "path is not utf8",
                        "solutions_loop")
               /\ UNCHANGED << trace, files, pending, solutions >>
          ELSE LET sol_id == text.val
                   out_path == "assets/sol-" \o sol_id
               IN \E o \in DoBuildOutcomes :
                    LET r == do_build(files, display(sol_path), out_path, o)
                    IN /\ trace' = trace \o << Event([ev |-> "BuildSolution",
                                                      id |-> sol_id]) >> \o r.ops
                       /\ files' = r.files
                       /\ AfterBuild(r, "solutions", "solutions_loop")
                       /\ pending' = IF r.status = "ok" THEN Tail(pending)
                                     ELSE pending
                       /\ solutions' = IF r.status = "ok"
                                       THEN (sol_id :> r.command) @@ solutions
                                       ELSE solutions
    /\ UNCHANGED << mergeVars, entropyVars, scratchVars, driverVars, cfg, problem_dir, testgens, checker_ref,
                    gen_answers, idx, test_info, close_handles, out,
                    open_fds, started, completed >>

BuildSolutions_done == LoopDone("solutions")

BuildTestgens_glob == GlobStep("testgens", "generators/*")

BuildTestgens_item ==
    /\ pc = "testgens_loop"
    /\ pending /= << >>
    /\ LET testgen == Head(pending)
           stem == file_stem(testgen)
           text == IF IsSome(stem) THEN to_str(stem.val) ELSE None
       IN IF ~IsSome(stem)
          THEN /\ Unwind("testgens", "called Option::unwrap() on a None value")
               /\ UNCHANGED << trace, files, pending, testgens >>
          ELSE IF ~IsSome(text)
          THEN /\ Raise("testgens", "bad_path", "utf8 error", "testgens_loop")
               /\ UNCHANGED << trace, files, pending, testgens >>
          ELSE LET testgen_name == text.val
                   out_path == "assets/testgen-" \o testgen_name
               IN \E o \in DoBuildOutcomes :
                    LET r == do_build(files, display(testgen), out_path, o)
                    IN /\ trace' = trace \o
                             << Event([ev |-> "BuildTestgen",
                                       name |-> testgen_name]) >> \o r.ops
                       /\ files' = r.files
                       /\ AfterBuild(r, "testgens", "testgens_loop")
                       /\ pending' = IF r.status = "ok" THEN Tail(pending)
                                     ELSE pending
                       /\ testgens' = IF r.status = "ok"
                                      THEN (testgen_name :> r.command) @@ testgens
                                      ELSE testgens
    /\ UNCHANGED << mergeVars, entropyVars, scratchVars, driverVars, cfg, problem_dir, solutions, checker_ref,
                    gen_answers, idx, test_info, close_handles, out,
                    open_fds, started, completed >>

BuildTestgens_done == LoopDone("testgens")

----------------------------------------------------------------------------
(* build_checkers / build_checker                                          *)

\* a builtin checker is referred to by its own name
checker_file_ref_by_name(check) ==
    IF check.kind = "Custom"
    THEN FileRef("checker/bin")
    ELSE FileRef("checker/builtin-checker-" \o check.name)

\* the FileRef build_checker returns in the Ok of either match arm
checker_file_ref(check) ==
    IF check.kind = "Custom"
    THEN FileRef("checker/bin")
    ELSE FileRef("checker/bin")

BuildChecker ==
    /\ pc = "checker"
    /\ Start("checker")
    /\ LET out_path == "assets/checker"
           ref == Some(checker_file_ref(cfg.check))
           ev == Event([ev |-> "BuildChecker"])
       IN IF cfg.check.kind = "Custom"
          THEN \E o \in DoBuildOutcomes :
                 LET r == do_build(files, "checkers/main.cpp", out_path, o)
                 IN /\ trace' = trace \o << ev >> \o r.ops
                    /\ files' = r.files
                    /\ IF r.status = "ok"
                       THEN /\ checker_ref' = ref
                            /\ Finish("checker")
                            /\ UNCHANGED result
                       ELSE /\ AfterBuild(r, "checker", StageAfter("checker"))
                            /\ UNCHANGED << checker_ref, completed >>
          ELSE \E o \in {"ok", "create_dir_failed", "copy_failed"} :
                 /\ trace' = trace \o << ev, FileOp("create_dir", out_path) >>
                               \o (IF o = "create_dir_failed" THEN << >>
                                   ELSE << FileOp("copy", out_path \o "/bin") >>)
                 /\ files' = CASE o = "ok" ->
                                    Write(Write(files, out_path, "<dir>"),
                                          out_path \o "/bin",
                                          "builtin-checker-" \o cfg.check.name)
                               [] o = "copy_failed" ->
                                    Write(files, out_path, "<dir>")
                               [] OTHER -> files
                 /\ IF o = "ok"
                    THEN /\ checker_ref' = ref
                         /\ Finish("checker")
                         /\ UNCHANGED result
                    ELSE /\ Raise("checker", "io",
                                  IF o = "copy_failed"
                                  THEN "failed to copy checker binary"
                                  ELSE "failed to create out directory",
                                  StageAfter("checker"))
                         /\ UNCHANGED << checker_ref, completed >>
    /\ UNCHANGED << mergeVars, entropyVars, scratchVars, driverVars, cfg, problem_dir, pending, solutions, testgens,
                    gen_answers, idx, test_info, close_handles, out,
                    open_fds >>

----------------------------------------------------------------------------
(* build(): whether reference answers are generated, and by which command  *)

\* reference answers are generated whatever the checker asks for
GenAnswersAlways(check) == TRUE

GenAnswersRequired(check) ==
    IF check.kind = "Custom" THEN check.pass_correct ELSE TRUE

PrimaryLookup ==
    /\ pc = "primary"
    /\ IF ~GenAnswersRequired(cfg.check)
       THEN /\ gen_answers' = None
            /\ pc' = Try(TRUE, StageAfter("primary"))
            /\ UNCHANGED result
       ELSE IF ~IsSome(cfg.primary_solution)
       THEN /\ Raise("primary", "no_primary_solution",
                     "primary-solution must be specified in order to generate tests correct answers",
                     StageAfter("primary"))
            /\ UNCHANGED gen_answers
       ELSE IF cfg.primary_solution.val \notin DOMAIN solutions
       THEN /\ Raise("primary", "unknown_solution",
                     "Unknown solution " \o cfg.primary_solution.val,
                     StageAfter("primary"))
            /\ UNCHANGED gen_answers
       ELSE /\ gen_answers' = Some(solutions[cfg.primary_solution.val])
            /\ pc' = Try(TRUE, StageAfter("primary"))
            /\ UNCHANGED result
    /\ UNCHANGED << mergeVars, entropyVars, scratchVars, driverVars, cfg, problem_dir, pending, solutions, testgens, checker_ref,
                    idx, test_info, close_handles, out, files, open_fds,
                    trace, started, completed >>

----------------------------------------------------------------------------
(* build_tests                                                             *)

\* a missing key falls back to a default generator instead of failing
get_or_default(map, key) ==
    IF key \in DOMAIN map THEN Some(map[key])
    ELSE Some(Command("assets/testgen-default/bin"))

\* HashMap::get
get(map, key) == IF key \in DOMAIN map THEN Some(map[key]) ELSE None

short_in_path(tid) == "tests/" \o ToString(tid) \o "-in.txt"
short_out_path(tid) == "tests/" \o ToString(tid) \o "-out.txt"

\* the problem defaults are merged last
test_limits_defaults_last(default, override) ==
    merge_limits(<< override, default >>)

\* merge_limits(&[self.cfg.limits, test_spec.limits])
test_limits(default, override) ==
    merge_limits(<< default, override >>)

\* the record starts out claiming a reference answer
TestInfoWithCorrect(tid, test_spec) ==
    [path |-> FileRef(short_in_path(tid)),
     correct |-> Some(FileRef(short_out_path(tid))),
     limits |-> test_limits(cfg.limits, test_spec.limits),
     group |-> test_spec.group]

\* the pom::Test built right after the input file exists
TestInfo(tid, test_spec) ==
    [path |-> FileRef(short_in_path(tid)),
     correct |-> None,
     limits |-> test_limits(cfg.limits, test_spec.limits),
     group |-> test_spec.group]

\* the exit status of the primary solution is not looked at
success_always(status) == TRUE

\* ExitStatus::success
success(status) == status = 0

ExitStatuses == {0, 1}

StderrTexts == {"", "runtime error"}

Range(f) == { f[x] : x \in DOMAIN f }

\* the descriptor open()/dup() hands out: the lowest one not in use
NewFd(fds) ==
    CHOOSE n \in 3..(3 + Cardinality(DOMAIN fds)) :
        /\ n \notin DOMAIN fds
        /\ \A m \in 3..(n - 1) : m \in DOMAIN fds

OpenFd(fds, path) == (NewFd(fds) :> path) @@ fds

CloseAll(fds, handles) == [fd \in DOMAIN fds \ Range(handles) |-> fds[fd]]

BuildTests_begin ==
    /\ pc = "tests"
    /\ Start("tests")
    /\ \E ok \in BOOLEAN :
         IF ok
         THEN /\ files' = Write(files, tests_path, "<dir>")
              /\ trace' = trace \o
                    << FileOp("create_dir_all", tests_path),
                       Event([ev |-> "GenerateTests",
                              count |-> Len(cfg.tests)]) >>
              /\ out' = << >>
              /\ idx' = 0
              /\ pc' = "tests_loop"
              /\ UNCHANGED result
         ELSE /\ trace' = Append(trace, FileOp("create_dir_all", tests_path))
              /\ Unwind("tests", "couldn't create tests output dir")
              /\ UNCHANGED << files, out, idx >>
    /\ UNCHANGED << mergeVars, entropyVars, scratchVars, driverVars, cfg, problem_dir, pending, solutions, testgens, checker_ref,
                    gen_answers, test_info, close_handles, open_fds,
                    completed >>

\* one iteration up to the construction of test_info: the GenerateTest event
\* and the input file of the test
BuildTests_input ==
    /\ pc = "tests_loop"
    /\ idx < Len(cfg.tests)
    /\ LET tid == test_id(idx)
           test_spec == cfg.tests[idx + 1]
           ev == Event([ev |-> "GenerateTest", test_id |-> tid])
           path == out_file_path(tid)
       IN IF test_spec.gen.kind = "Generate"
          THEN LET testgen_cmd == get(testgens, test_spec.gen.testgen)
               IN IF ~IsSome(testgen_cmd)
                  THEN /\ trace' = Append(trace, ev)
                       /\ Raise("tests", "unknown_testgen",
                                "error: unknown testgen "
                                    \o test_spec.gen.testgen,
                                "tests_answer")
                       /\ UNCHANGED << files, test_info >>
                  ELSE \E entropy \in Entropies,
                          o \in {"ok", "run_failed", "write_failed"} :
                         LET cmd == configure_command(
                                      env(env(args_loop(testgen_cmd.val,
                                                        test_spec.gen.args),
                                              "JJS_TEST_ID", ToString(tid)),
                                          "JJS_RANDOM_SEED", entropy))
                         IN /\ trace' = trace \o
                                  << ev, Spawn("testgen", tid, cmd) >> \o
                                  (IF o = "run_failed" THEN << >>
                                   ELSE << FileOp("write", path) >>)
                            /\ testgens' =
                                 [testgens EXCEPT ![test_spec.gen.testgen] =
                                      template_after_clone(@, cmd)]
                            /\ IF o = "ok"
                               THEN /\ files' = Write(files, path,
                                                      GenStdout(cmd))
                                    /\ test_info' = Some(TestInfo(tid, test_spec))
                                    /\ pc' = Try(TRUE, "tests_answer")
                                    /\ UNCHANGED result
                               ELSE /\ Raise("tests",
                                             IF o = "run_failed"
                                             THEN "testgen_failed" ELSE "io",
                                             IF o = "run_failed"
                                             THEN "task execution error"
                                             ELSE "failed to write test",
                                             "tests_answer")
                                    /\ UNCHANGED << files, test_info >>
          ELSE LET src_path == "tests/" \o test_spec.gen.path
               IN \E o \in {"ok", "copy_failed"} :
                    /\ o = "ok" => test_spec.gen.path \in DOMAIN problem_dir.tests
                    /\ trace' = trace \o << ev, FileOp("copy", path) >>
                    /\ IF o = "ok"
                       THEN LET c == fs_copy(problem_dir.tests,
                                             test_spec.gen.path, files, path)
                            IN /\ files' = c.dst_fs
                               /\ problem_dir' =
                                     [problem_dir EXCEPT !.tests = c.src_fs]
                               /\ test_info' = Some(TestInfo(tid, test_spec))
                               /\ pc' = Try(TRUE, "tests_answer")
                               /\ UNCHANGED result
                       ELSE /\ Raise("tests", "copy_test",
                                     "Couldn't copy test data from " \o src_path
                                         \o " to " \o path,
                                     "tests_answer")
                            /\ UNCHANGED << files, test_info, problem_dir >>
    /\ IF cfg.tests[idx + 1].gen.kind = "Generate"
       THEN UNCHANGED problem_dir
       ELSE TRUE
    /\ IF /\ cfg.tests[idx + 1].gen.kind = "Generate"
          /\ IsSome(get(testgens, cfg.tests[idx + 1].gen.testgen))
       THEN TRUE
       ELSE UNCHANGED testgens
    /\ UNCHANGED << mergeVars, entropyVars, scratchVars, driverVars, cfg, pending, solutions, checker_ref,
                    gen_answers, idx, close_handles, out, open_fds,
                    started, completed >>

\* gen_answers is None: the record is pushed as built
BuildTests_push ==
    /\ pc = "tests_answer"
    /\ ~IsSome(gen_answers)
    /\ out' = Append(out, test_info.val)
    /\ idx' = next_index(idx)
    /\ pc' = "tests_loop"
    /\ UNCHANGED << mergeVars, entropyVars, scratchVars, driverVars, cfg, problem_dir, pending, solutions, testgens, checker_ref,
                    gen_answers, test_info, close_handles, files, open_fds,
                    trace, started, completed, result >>

\* gen_answers is Some: open the input, create the answer file, take the raw
\* descriptors and their duplicates
BuildTests_answer_open ==
    /\ pc = "tests_answer"
    /\ IsSome(gen_answers)
    /\ LET tid == test_id(idx)
           in_path == out_file_path(tid)
           ans_path == correct_file_path(tid)
       IN \E o \in {"ok", "open_failed", "create_failed"} :
            CASE o = "open_failed" ->
                   /\ trace' = Append(trace, FileOp("open", in_path))
                   /\ Raise("tests", "io", "open failed", "tests_run")
                   /\ UNCHANGED << files, open_fds, close_handles >>
              [] o = "create_failed" ->
                   \* test_data is dropped by the early return, which closes it
                   /\ trace' = trace \o << FileOp("open", in_path),
                                           FileOp("create", ans_path),
                                           FileOp("close", in_path) >>
                   /\ Raise("tests", "io", "create failed", "tests_run")
                   /\ UNCHANGED << files, open_fds, close_handles >>
              [] o = "ok" ->
                   LET fds1 == OpenFd(open_fds, in_path)
                       test_data == NewFd(open_fds)
                       fds2 == OpenFd(fds1, ans_path)
                       answer_data == NewFd(fds1)
                       fds3 == OpenFd(fds2, fds2[test_data])
                       test_data_fd == NewFd(fds2)
                       fds4 == OpenFd(fds3, fds3[answer_data])
                       ans_data_fd == NewFd(fds3)
                   IN /\ trace' = trace \o << FileOp("open", in_path),
                                              FileOp("create", ans_path) >>
                      /\ files' = Write(files, ans_path, "")
                      /\ open_fds' = fds4
                      /\ close_handles' = << test_data, test_data_fd,
                                             answer_data, ans_data_fd >>
                      /\ pc' = Try(TRUE, "tests_run")
                      /\ UNCHANGED result
    /\ UNCHANGED << mergeVars, entropyVars, scratchVars, driverVars, cfg, problem_dir, pending, solutions, testgens, checker_ref,
                    gen_answers, idx, test_info, out, started, completed >>

Exit(what, tid, status, stderr) ==
    [op |-> "exit",
     arg |-> [what |-> what, tid |-> tid, status |-> status,
              stderr |-> stderr]]

\* run the primary solution with descriptor 0 on the input file and
\* descriptor 1 on the answer file, then look at its exit status
BuildTests_run ==
    /\ pc = "tests_run"
    /\ LET tid == test_id(idx)
           cmd == configure_command(gen_answers.val)
           stdin_path == open_fds[close_handles[2]]
           stdout_path == open_fds[close_handles[4]]
           input == files[stdin_path]
       IN \/ \* the child could not be spawned
             /\ trace' = Append(trace, Spawn("solution", tid, cmd))
             /\ gen_answers' = Some(template_after_clone(gen_answers.val, cmd))
             /\ Raise("tests", "launch_solution",
                      "launch main solution error: {}", "tests_loop")
             /\ UNCHANGED << files, open_fds, close_handles, test_info,
                             out, idx >>
          \/ \E status \in ExitStatuses, stderr \in StderrTexts,
                written \in {"", "answer(", SolutionStdout(input)} :
               /\ status = 0 => written = SolutionStdout(input) /\ stderr = ""
               /\ status /= 0 => written /= SolutionStdout(input)
               /\ trace' = trace \o << Spawn("solution", tid, cmd),
                                       FileOp("write", stdout_path),
                                       Exit("solution", tid, status, stderr) >>
               /\ files' = Write(files, stdout_path, written)
               /\ gen_answers' = Some(template_after_clone(gen_answers.val, cmd))
               /\ IF ~success(status)
                  THEN /\ Raise("tests", "solution_failed",
                                "Error while generating correct answer for test "
                                    \o ToString(tid)
                                    \o ": main solution failed: " \o stderr,
                                "tests_loop")
                       /\ UNCHANGED << open_fds, close_handles, test_info,
                                       out, idx >>
                  ELSE /\ test_info' = Some([test_info.val EXCEPT !.correct =
                                          Some(FileRef(short_out_path(tid)))])
                       /\ open_fds' = CloseAll(open_fds, close_handles)
                       /\ close_handles' = << >>
                       /\ out' = Append(out, test_info'.val)
                       /\ idx' = next_index(idx)
                       /\ pc' = Try(TRUE, "tests_loop")
                       /\ UNCHANGED result
    /\ UNCHANGED << mergeVars, entropyVars, scratchVars, driverVars, cfg, problem_dir, pending, solutions, testgens, checker_ref,
                    started, completed >>

\* every declared test was visited: build_tests returns Ok(out)
BuildTests_done ==
    /\ pc = "tests_loop"
    /\ idx >= Len(cfg.tests)
    /\ Finish("tests")
    /\ UNCHANGED << mergeVars, entropyVars, scratchVars, driverVars, cfg, problem_dir, pending, solutions, testgens, checker_ref,
                    gen_answers, idx, test_info, close_handles, out, files,
                    open_fds, trace, started, result >>

----------------------------------------------------------------------------
(* copy_raw, the valuer binary and the manifest                            *)

\* str::trim_start_matches('/') on the paths a manifest may name
trim_start_slash(s) ==
    CASE s = "/valuer.yaml" -> "valuer.yaml"
      [] s = "/valuer-dir" -> "valuer-dir"
      [] OTHER -> s

CopyRaw ==
    /\ pc = "copy_raw"
    /\ Start("copy_raw")
    /\ LET valuer_cfg_dir == "assets/valuer-cfg"
           dest == valuer_cfg_dir \o "/cfg.yaml"
       IN IF ~IsSome(cfg.valuer_cfg)
          THEN /\ Finish("copy_raw")
               /\ UNCHANGED << files, trace, result >>
          ELSE LET src == trim_start_slash(cfg.valuer_cfg.val)
                   ev == Event([ev |-> "CopyValuerConfig"])
               IN \E o \in {"ok", "create_dir_failed", "copy_failed"} :
                    CASE o = "create_dir_failed" ->
                           /\ trace' = trace \o
                                << ev, FileOp("create_dir", valuer_cfg_dir) >>
                           /\ Raise("copy_raw", "io", "create_dir failed",
                                    StageAfter("copy_raw"))
                           /\ UNCHANGED << files, completed >>
                      [] o /= "create_dir_failed" /\ ~ProblemDirIsFile(src) ->
                           /\ trace' = trace \o
                                << ev, FileOp("create_dir", valuer_cfg_dir) >>
                           /\ files' = Write(files, valuer_cfg_dir, "<dir>")
                           /\ Raise("copy_raw", "multi_file_valuer_config",
                                    "Multi-file valuer config is TODO",
                                    StageAfter("copy_raw"))
                           /\ UNCHANGED completed
                      [] o = "copy_failed" /\ ProblemDirIsFile(src) ->
                           /\ trace' = trace \o
                                << ev, FileOp("create_dir", valuer_cfg_dir),
                                   FileOp("copy", dest) >>
                           /\ files' = Write(files, valuer_cfg_dir, "<dir>")
                           /\ Raise("copy_raw", "io", "copy failed",
                                    StageAfter("copy_raw"))
                           /\ UNCHANGED completed
                      [] o = "ok" /\ ProblemDirIsFile(src) ->
                           /\ trace' = trace \o
                                << ev, FileOp("create_dir", valuer_cfg_dir),
                                   FileOp("copy", dest) >>
                           /\ files' = Write(Write(files, valuer_cfg_dir, "<dir>"),
                                             dest, "<" \o src \o ">")
                           /\ Finish("copy_raw")
                           /\ UNCHANGED result
    /\ UNCHANGED << mergeVars, entropyVars, scratchVars, driverVars, cfg, problem_dir, pending, solutions, testgens, checker_ref,
                    gen_answers, idx, test_info, close_handles, out,
                    open_fds >>

CopyValuer ==
    /\ pc = "copy_valuer"
    /\ Start("copy_valuer")
    /\ LET dest == "assets/valuer"
       IN /\ trace' = Append(trace, FileOp("copy", dest))
          /\ \E ok \in BOOLEAN :
               IF ok
               THEN /\ files' = Write(files, dest, "<svaluer>")
                    /\ Finish("copy_valuer")
                    /\ UNCHANGED result
               ELSE /\ Raise("copy_valuer", "io",
                             "failed to copy valuer binary",
                             StageAfter("copy_valuer"))
                    /\ UNCHANGED << files, completed >>
    /\ UNCHANGED << mergeVars, entropyVars, scratchVars, driverVars, cfg, problem_dir, pending, solutions, testgens, checker_ref,
                    gen_answers, idx, test_info, close_handles, out,
                    open_fds >>

\* the pom::Problem assembled at the end of build()
Problem ==
    [title |-> cfg.title,
     name |-> cfg.name,
     checker_exe |-> checker_ref.val,
     checker_cmd |-> cfg.check_options.args,
     valuer |-> [exe |-> FileRef("valuer"), extra_args |-> << >>],
     tests |-> out,
     valuer_config |-> FileRef("valuer-cfg")]

\* serde_json::to_string
to_string(problem) == [json |-> problem]

\* what a failed write leaves of a text: some prefix of it
truncated(text) == [prefix_of |-> text]

EmitManifest ==
    /\ pc = "manifest"
    /\ Start("manifest")
    /\ \E o \in {"ok", "serialize_failed", "create_failed", "write_failed"} :
         CASE o = "ok" ->
                /\ trace' = Append(trace, FileOp("write", ManifestPath))
                /\ files' = Write(files, ManifestPath, to_string(Problem))
                /\ Finish("manifest")
                /\ result' = Ok
           [] o = "serialize_failed" ->
                /\ Raise("manifest", "serialize", "couldn't serialize manifest",
                         "returned")
                /\ UNCHANGED << files, trace, completed >>
           [] o = "create_failed" ->
                /\ trace' = Append(trace, FileOp("write", ManifestPath))
                /\ Raise("manifest", "io", "couldn't emit manifest", "returned")
                /\ UNCHANGED << files, completed >>
           [] o = "write_failed" ->
                \* the file was created, writing its content failed
                /\ trace' = Append(trace, FileOp("write", ManifestPath))
                /\ files' = Write(files, ManifestPath,
                                 truncated(to_string(Problem)))
                /\ Raise("manifest", "io", "couldn't emit manifest", "returned")
                /\ UNCHANGED completed
    /\ UNCHANGED << mergeVars, entropyVars, scratchVars, driverVars, cfg, problem_dir, pending, solutions, testgens, checker_ref,
                    gen_answers, idx, test_info, close_handles, out,
                    open_fds >>

----------------------------------------------------------------------------

Next ==
    \/ BuildModules_glob
    \/ BuildModules_item
    \/ BuildModules_done
    \/ BuildSolutions_glob
    \/ BuildSolutions_item
    \/ BuildSolutions_done
    \/ BuildTestgens_glob
    \/ BuildTestgens_item
    \/ BuildTestgens_done
    \/ BuildChecker
    \/ PrimaryLookup
    \/ BuildTests_begin
    \/ BuildTests_input
    \/ BuildTests_push
    \/ BuildTests_answer_open
    \/ BuildTests_run
    \/ BuildTests_done
    \/ CopyRaw
    \/ CopyValuer
    \/ EmitManifest

Spec == Init /\ [][Next]_vars

\* every external step terminates: a build that can take a step takes one
SpecFair == Spec /\ WF_vars(Next)

TypeOK ==
    /\ pc \in {"modules", "modules_loop", "solutions", "solutions_loop",
               "testgens", "testgens_loop", "checker", "primary", "tests",
               "tests_loop", "tests_answer", "tests_run", "copy_raw",
               "copy_valuer", "manifest", "returned", "aborted"}
    /\ result.status \in {"running", "ok", "err", "panic"}
    /\ idx \in 0..Len(cfg.tests)
    /\ Len(out) <= Len(cfg.tests)

----------------------------------------------------------------------------
(* Vocabulary of the properties                                            *)

IsPrefix(s, t) == Len(s) <= Len(t) /\ s = SubSeq(t, 1, Len(s))

Returned == pc = "returned"
Finished == pc \in {"returned", "aborted"}

HasStarted(stage) == stage \in Range(started)
HasCompleted(stage) == stage \in Range(completed)

EventsNamed(name) ==
    { k \in DOMAIN trace : trace[k].op = "event" /\ trace[k].arg.ev = name }

SpawnsOf(what) ==
    { k \in DOMAIN trace : trace[k].op = "spawn" /\ trace[k].arg.what = what }

AllSpawns == { k \in DOMAIN trace : trace[k].op = "spawn" }

FailedExits ==
    { k \in DOMAIN trace : trace[k].op = "exit" /\ trace[k].arg.status /= 0 }

ManifestWritten == ManifestPath \in DOMAIN files

InName(i) == "assets/tests/" \o ToString(i) \o "-in.txt"
OutName(i) == "assets/tests/" \o ToString(i) \o "-out.txt"

\* the names a test file can have, whatever identifier the loop computes
TestFileNames ==
    { InName(i) : i \in 0..(MaxTests + 2) } \cup
    { OutName(i) : i \in 0..(MaxTests + 2) }
OutFileNames == { OutName(i) : i \in 0..(MaxTests + 2) }

\* the checker is builtin, or is custom with pass_correct set
AnswersRequired ==
    \/ cfg.check.kind = "Builtin"
    \/ cfg.check.kind = "Custom" /\ cfg.check.pass_correct

\* the stages that can fail, in the order build() reaches them
FailOrder ==
    << "modules", "solutions", "testgens", "checker", "primary", "tests",
       "copy_raw", "copy_valuer", "manifest" >>

Pos(stage) == CHOOSE k \in DOMAIN FailOrder : FailOrder[k] = stage

----------------------------------------------------------------------------
(* get_entropy_hex on every buffer up to MaxBufLen                         *)

\* the caller's `[0; RANDOM_SEED_LENGTH]`
InitEntropy ==
    /\ entropy_len \in 0..MaxBufLen
    /\ random = << >>
    /\ entropy_buf = [k \in 1..entropy_len |-> 0]
    /\ entropy_i = 0
    /\ entropy_pc = "getrandom"
    /\ MergeIdle
    /\ ScratchIdle
    /\ BuildIdle
    /\ DriverIdle

SpecEntropy == InitEntropy /\ [][NextEntropy]_vars

\* the codes of the characters 0123456789abcdef, in this order
HexChars == << 48, 49, 50, 51, 52, 53, 54, 55, 56, 57,
               97, 98, 99, 100, 101, 102 >>

\* C12: get_entropy_hex applied to a buffer of length n leaves a buffer of
\* exactly n bytes, each one of the 16 characters 0-9a-f, for every n and
\* every value of the random bytes: byte b becomes the hex digit of b mod 16.
C12_EntropyIsHex ==
    /\ Len(entropy_buf) = entropy_len
    /\ entropy_pc \in {"loop", "done"} =>
          \A k \in 1..entropy_i :
              /\ entropy_buf[k] \in Range(HexChars)
              /\ entropy_buf[k] = HexChars[(random[k] % 16) + 1]
    /\ entropy_pc = "done" => entropy_i = entropy_len

\* a full buffer whose bytes covered a digit, a letter and a byte above 15
C12_Witness ==
    /\ entropy_pc = "done"
    /\ entropy_len = MaxBufLen
    /\ \E k \in 1..entropy_len : random[k] % 16 < 10 /\ random[k] > 15
    /\ \E k \in 1..entropy_len : random[k] % 16 = 10
    /\ \E k \in 1..entropy_len : random[k] = 255 /\ entropy_buf[k] = 102

----------------------------------------------------------------------------
(* Properties                                                              *)

\* C2: every descriptor acquired for reference-answer generation (the input
\* file's descriptor and its duplicate, the answer file's descriptor and its
\* duplicate) is closed on every exit path, so once build has returned no
\* such descriptor is still open.
C2_DescriptorsClosedOnEveryExit ==
    Finished => DOMAIN open_fds = {}

\* C3: the stages start in the order modules, solutions, testgens, checker,
\* tests, raw copy, valuer copy, manifest; a stage starts only after the
\* previous one returned Ok, and no stage runs twice.
C3_StageOrder ==
    /\ IsPrefix(started, StageOrder)
    /\ IsPrefix(completed, started)
    /\ Len(started) <= Len(completed) + 1

C3_Witness ==
    /\ started = StageOrder
    /\ completed = StageOrder
    /\ result.status = "ok"

PositionalTests(ts) ==
    /\ Len(ts) = Len(cfg.tests)
    /\ \A i \in DOMAIN ts :
          /\ ts[i].path = [path |-> "tests/" \o ToString(i) \o "-in.txt",
                           root |-> "Problem"]
          /\ ts[i].group = cfg.tests[i].group

\* C5: a successful build_tests returns exactly one Test per declared
\* TestSpec; the record at position i has input reference tests/<i>-in.txt
\* and the group of the i-th TestSpec, and the manifest lists the tests in
\* that order.
C5_TestsInDeclarationOrder ==
    /\ HasCompleted("tests") => PositionalTests(out)
    /\ result.status = "ok" =>
          /\ ManifestWritten
          /\ PositionalTests(files[ManifestPath].json.tests)

C5_Witness ==
    /\ result.status = "ok"
    /\ Len(cfg.tests) = 2
    /\ cfg.tests[1].gen.kind = "File"
    /\ cfg.tests[2].gen.kind = "Generate"
    /\ cfg.tests[1].group /= cfg.tests[2].group
    /\ Len(files[ManifestPath].json.tests) = 2

\* test i of the manifest is a Generate test naming a testgen that was not
\* built
UnknownTestgenAt(i) ==
    /\ i \in DOMAIN cfg.tests
    /\ cfg.tests[i].gen.kind = "Generate"
    /\ cfg.tests[i].gen.testgen \notin DOMAIN testgens

\* the loop of build_tests has entered the iteration of test i
ReachedTest(i) ==
    \E k \in EventsNamed("GenerateTest") : trace[k].arg.test_id = i

\* C6 as stated: the unknown-testgen failure occurs before any process is
\* spawned.
C6_NoProcessBeforeUnknownTestgen ==
    (result.status = "err" /\ result.kind = "unknown_testgen") =>
        AllSpawns = {}

\* C6 (amended): when build_tests reaches a Generate test whose testgen is
\* not a key of the built testgens map, the build fails with the
\* unknown-testgen configuration error before any process is spawned and any
\* file is written for that test; such a test is never produced and the
\* build never succeeds.  Processes of earlier tests may have run.
C6_UnknownTestgenFails ==
    \A i \in DOMAIN cfg.tests :
        (HasCompleted("testgens") /\ UnknownTestgenAt(i)) =>
            /\ ReachedTest(i) =>
                  /\ result.status = "err"
                  /\ result.kind = "unknown_testgen"
                  /\ result.stage = "tests"
                  /\ Returned
            /\ \A k \in AllSpawns : trace[k].arg.tid /= i
            /\ InName(i) \notin DOMAIN files
            /\ OutName(i) \notin DOMAIN files
            /\ Len(out) < i
            /\ result.status /= "ok"
            /\ ~ManifestWritten

\* the second test names an unknown testgen, after the first test ran its
\* testgen and the primary solution
C6_Witness ==
    /\ result.status = "err"
    /\ result.kind = "unknown_testgen"
    /\ UnknownTestgenAt(2)
    /\ ReachedTest(2)
    /\ SpawnsOf("testgen") /= {}
    /\ SpawnsOf("solution") /= {}

\* C7: with a custom checker that does not take the correct answer and no
\* primary solution configured, every produced Test has no correct-output
\* reference, no <id>-out.txt exists and the primary solution is never run.
C7_NoAnswersWhenNotRequired ==
    (/\ cfg.check.kind = "Custom"
     /\ ~cfg.check.pass_correct
     /\ ~IsSome(cfg.primary_solution)) =>
        /\ \A i \in DOMAIN out : out[i].correct = None
        /\ test_info /= None => test_info.val.correct = None
        /\ DOMAIN files \cap OutFileNames = {}
        /\ SpawnsOf("solution") = {}
        /\ result.status = "ok" =>
              \A i \in DOMAIN files[ManifestPath].json.tests :
                  files[ManifestPath].json.tests[i].correct = None

C7_Witness ==
    /\ cfg.check.kind = "Custom"
    /\ ~cfg.check.pass_correct
    /\ ~IsSome(cfg.primary_solution)
    /\ result.status = "ok"
    /\ Len(out) = 2
    /\ SpawnsOf("testgen") /= {}

\* C8: when reference answers are required, every produced Test i has the
\* correct-output reference tests/<i>-out.txt, and <i>-out.txt holds exactly
\* what the primary solution writes when it reads the content of <i>-in.txt.
C8_AnswerOfOwnInput ==
    AnswersRequired =>
        \A i \in DOMAIN out :
            /\ out[i].correct =
                   Some([path |-> "tests/" \o ToString(i) \o "-out.txt",
                         root |-> "Problem"])
            /\ InName(i) \in DOMAIN files
            /\ OutName(i) \in DOMAIN files
            /\ files[OutName(i)] = SolutionStdout(files[InName(i)])

C8_Witness ==
    /\ AnswersRequired
    /\ HasCompleted("tests")
    /\ Len(out) = 2
    /\ files[InName(1)] /= files[InName(2)]
    /\ files[OutName(1)] /= files[OutName(2)]

\* primary_solution is absent or names no built solution
PrimaryUnusable ==
    \/ ~IsSome(cfg.primary_solution)
    \/ cfg.primary_solution.val \notin DOMAIN solutions

\* build() is past the choice of gen_answers
LookupDone == HasCompleted("checker") /\ pc /= "primary"

\* C9: reference answers are generated exactly when the checker is builtin
\* or custom with pass_correct; when they are required and primary_solution
\* is absent or names no built solution, the build fails with a
\* configuration error before any test is generated.
C9_PrimaryRequired ==
    /\ HasStarted("tests") => (IsSome(gen_answers) <=> AnswersRequired)
    /\ (result.status \in {"err", "panic"} /\ result.stage = "primary") =>
          AnswersRequired
    /\ (AnswersRequired /\ HasCompleted("solutions") /\ PrimaryUnusable) =>
          /\ LookupDone =>
                /\ result.status = "err"
                /\ result.stage = "primary"
                /\ result.kind \in {"no_primary_solution", "unknown_solution"}
                /\ Returned
          /\ EventsNamed("GenerateTests") = {}
          /\ EventsNamed("GenerateTest") = {}
          /\ ~HasStarted("tests")
          /\ DOMAIN files \cap TestFileNames = {}
          /\ tests_path \notin DOMAIN files
          /\ ~ManifestWritten
          /\ result.status /= "ok"

C9_Witness ==
    /\ cfg.check.kind = "Builtin"
    /\ cfg.primary_solution = Some("nosuch")
    /\ Len(cfg.tests) = 2
    /\ result.status = "err"
    /\ result.kind = "unknown_solution"
    /\ DOMAIN solutions = {"main", "wrong"}

\* C10: a non-zero exit of the primary solution on test i is the last thing
\* the build does: the solution is not run again for test i, no later test
\* is generated, build returns an error carrying the captured standard
\* error, and no manifest is written.
C10_SolutionFailureIsFatal ==
    \A k \in FailedExits :
        LET i == trace[k].arg.tid
        IN /\ k = Len(trace)
           /\ Cardinality({ j \in SpawnsOf("solution") :
                              trace[j].arg.tid = i }) = 1
           /\ \A j \in EventsNamed("GenerateTest") : trace[j].arg.test_id <= i
           /\ Len(out) = i - 1
           /\ Returned
           /\ result = [status |-> "err", stage |-> "tests",
                        kind |-> "solution_failed",
                        detail |-> "Error while generating correct answer for test "
                                     \o ToString(i)
                                     \o ": main solution failed: "
                                     \o trace[k].arg.stderr]
           /\ ~ManifestWritten

C10_Witness ==
    /\ FailedExits /= {}
    /\ result.kind = "solution_failed"
    /\ Len(cfg.tests) = 2
    /\ idx = 0
    /\ trace[Len(trace)].arg.stderr = "runtime error"
    /\ Returned


\* the copy of test i's fixture was started / ended in the copy error
CopyAttempted(i) ==
    \E k \in DOMAIN trace :
        trace[k].op = "copy" /\ trace[k].arg = InName(i)

CopyFailed(i) ==
    /\ result.status = "err"
    /\ result.kind = "copy_test"
    /\ idx = i - 1

\* C11: for a File-variant test i whose fixture tests/<relative_path> holds
\* bytes B, after the input step <i>-in.txt holds exactly B and the fixture
\* is unchanged; if the fixture is missing or unreadable the build fails
\* with the copy error and no Test record for i is produced.
C11_FixtureCopied ==
    \A i \in 1..Len(cfg.tests) :
        cfg.tests[i].gen.kind = "File" =>
            LET name == cfg.tests[i].gen.path
            IN /\ problem_dir.tests = Fixtures
               /\ (CopyAttempted(i) /\ ~CopyFailed(i)) =>
                      /\ name \in DOMAIN Fixtures
                      /\ InName(i) \in DOMAIN files
                      /\ files[InName(i)] = Fixtures[name]
               /\ (CopyAttempted(i) /\ name \notin DOMAIN Fixtures) =>
                      CopyFailed(i)
               /\ CopyFailed(i) =>
                      /\ Returned
                      /\ Len(out) < i
                      /\ result.detail = "Couldn't copy test data from tests/"
                             \o name \o " to " \o InName(i)

C11_Witness ==
    /\ Len(cfg.tests) = 2
    /\ cfg.tests[1].gen = [kind |-> "File", path |-> "fixed.txt"]
    /\ cfg.tests[2].gen = [kind |-> "File", path |-> "absent.txt"]
    /\ InName(1) \in DOMAIN files
    /\ files[InName(1)] = "fixture-bytes"
    /\ CopyFailed(2)
    /\ Len(out) = 1

\* C13: whenever the checker stage succeeds, for a custom and for a builtin
\* checker alike, it returns the FileReference with path "checker/bin"
\* relative to the problem package root, and that reference is the
\* checker_exe of the emitted manifest.
C13_CheckerRef ==
    /\ HasCompleted("checker") =>
          checker_ref = Some([path |-> "checker/bin", root |-> "Problem"])
    /\ result.status = "ok" =>
          /\ ManifestWritten
          /\ files[ManifestPath].json.checker_exe =
                [path |-> "checker/bin", root |-> "Problem"]

C13_Witness ==
    /\ cfg.check.kind = "Builtin"
    /\ HasCompleted("checker")
    /\ result.status = "ok"
    /\ ManifestWritten
    /\ "assets/checker/bin" \in DOMAIN files

\* positions of the trace at which `what` was done to `path`
FileOpsAt(what, path) ==
    { k \in DOMAIN trace : trace[k].op = what /\ trace[k].arg = path }

ValuerCfgPaths == {"assets/valuer-cfg", "assets/valuer-cfg/cfg.yaml"}

\* C14: copy_raw: a declared valuer config that is a single file is copied
\* to assets/valuer-cfg/cfg.yaml after a CopyValuerConfig event; a declared
\* path that is not a single file (a directory) makes the build fail with the
\* fatal configuration error; with no valuer config declared copy_raw
\* succeeds, emits no CopyValuerConfig event and creates nothing.
C14_CopyRaw ==
    LET events == EventsNamed("CopyValuerConfig")
        mkdirs == FileOpsAt("create_dir", "assets/valuer-cfg")
        copies == FileOpsAt("copy", "assets/valuer-cfg/cfg.yaml")
    IN /\ \A k \in mkdirs \cup copies : \E e \in events : e < k
       /\ Cardinality(events) <= 1
       /\ HasStarted("copy_raw") =>
            CASE ~IsSome(cfg.valuer_cfg) ->
                   /\ HasCompleted("copy_raw")
                   /\ events = {} /\ mkdirs = {} /\ copies = {}
                   /\ DOMAIN files \cap ValuerCfgPaths = {}
              [] cfg.valuer_cfg = Some("/valuer.yaml") ->
                   /\ Cardinality(events) = 1
                   /\ HasCompleted("copy_raw") =>
                         /\ "assets/valuer-cfg/cfg.yaml" \in DOMAIN files
                         /\ files["assets/valuer-cfg/cfg.yaml"] = "<valuer.yaml>"
                   /\ ~HasCompleted("copy_raw") =>
                         /\ result.status = "err"
                         /\ result.stage = "copy_raw"
                         /\ result.kind = "io"
              [] cfg.valuer_cfg = Some("/valuer-dir") ->
                   /\ ~HasCompleted("copy_raw")
                   /\ Returned
                   /\ result.status = "err"
                   /\ result.stage = "copy_raw"
                   /\ result.kind \in {"multi_file_valuer_config", "io"}
                   /\ result.kind = "multi_file_valuer_config" <=>
                         "assets/valuer-cfg" \in DOMAIN files
                   /\ "assets/valuer-cfg/cfg.yaml" \notin DOMAIN files
                   /\ ~ManifestWritten

\* the directory case: the build stopped in copy_raw with the configuration error
C14_Witness ==
    /\ cfg.valuer_cfg = Some("/valuer-dir")
    /\ HasStarted("copy_raw")
    /\ result.status = "err"
    /\ result.kind = "multi_file_valuer_config"
    /\ result.detail = "Multi-file valuer config is TODO"
    /\ EventsNamed("CopyValuerConfig") /= {}

\* positions of the trace at which a build into `prefix`<id> begins
BuildStarts(prefix) ==
    { k \in DOMAIN trace :
        /\ trace[k].op \in {"create_dir_all", "create_dir"}
        /\ Len(trace[k].arg) >= Len(prefix)
        /\ SubSeq(trace[k].arg, 1, Len(prefix)) = prefix }

\* the event right before position k of the trace is e
AnnouncedBy(k, e) == k > 1 /\ trace[k - 1] = Event(e)

\* every solution, testgen and checker build directly follows its own event
BuildsAnnounced ==
    /\ \A k \in BuildStarts("assets/sol-") :
          \E id \in {"main", "wrong"} :
              /\ trace[k].arg = "assets/sol-" \o id
              /\ AnnouncedBy(k, [ev |-> "BuildSolution", id |-> id])
    /\ \A k \in BuildStarts("assets/testgen-") :
          /\ trace[k].arg = "assets/testgen-gen"
          /\ AnnouncedBy(k, [ev |-> "BuildTestgen", name |-> "gen"])
    /\ \A k \in BuildStarts("assets/checker") :
          AnnouncedBy(k, [ev |-> "BuildChecker"])

\* every module build is preceded by a progress event
ModuleBuildsAnnounced ==
    \A k \in BuildStarts("assets/module-") :
        \E j \in 1..(k - 1) :
            /\ trace[j].op = "event"
            /\ \A m \in BuildStarts("assets/module-") : m < k => m < j

\* the trace positions of the file and process actions of test i
ActionsOfTest(i) ==
    { k \in DOMAIN trace :
        \/ trace[k].op \in {"spawn", "exit"} /\ trace[k].arg.tid = i
        \/ /\ trace[k].op \in {"write", "copy", "open", "create", "close"}
           /\ trace[k].arg \in {InName(i), OutName(i)} }

\* GenerateTests{count = N} once and before any GenerateTest; GenerateTest{i}
\* before every action of test i; GenerateTest events in increasing order
TestsAnnounced ==
    LET batch == EventsNamed("GenerateTests")
        each == EventsNamed("GenerateTest")
    IN /\ Cardinality(batch) <= 1
       /\ \A b \in batch : trace[b].arg.count = Len(cfg.tests)
       /\ \A g \in each : \E b \in batch : b < g
       /\ \A g, h \in each :
             g < h => trace[g].arg.test_id < trace[h].arg.test_id
       /\ \A i \in 1..Len(cfg.tests) :
             \A k \in ActionsOfTest(i) :
                 \E g \in each : g < k /\ trace[g].arg.test_id = i

\* C15: every solution, testgen, module and checker build is preceded by
\* its own progress event, GenerateTests{count = N} is emitted exactly once
\* and before any GenerateTest event, and GenerateTest{test_id = i} is
\* emitted before any file or process action of test i, with the
\* GenerateTest events in increasing order of i.
C15_ProgressBeforeEachBuild ==
    /\ BuildsAnnounced
    /\ ModuleBuildsAnnounced
    /\ TestsAnnounced

\* C16: the shared Command template of a testgen or of the primary solution
\* is never mutated by an invocation: the arguments and the test-id and seed
\* variables added for test i go to a clone, so the command run for test j
\* holds only test j's own arguments and variables, also when several tests
\* use the same testgen.
C16_TemplateNotMutated ==
    /\ \A n \in DOMAIN testgens :
          testgens[n] = Command("assets/testgen-" \o n \o "/bin")
    /\ IsSome(gen_answers) =>
          /\ IsSome(cfg.primary_solution)
          /\ gen_answers.val =
                Command("assets/sol-" \o cfg.primary_solution.val \o "/bin")
    /\ \A k \in SpawnsOf("testgen") :
          LET j == trace[k].arg.tid
              cmd == trace[k].arg.cmd
          IN /\ cmd.exe = "assets/testgen-" \o cfg.tests[j].gen.testgen \o "/bin"
             /\ cmd.args = cfg.tests[j].gen.args
             /\ cmd.env["JJS_TEST_ID"] = ToString(j)
             /\ cmd.env["JJS_RANDOM_SEED"] \in Entropies
             /\ DOMAIN cmd.env = {"JJS_TEST_ID", "JJS_RANDOM_SEED",
                                  "JJS_PROBLEM_SRC", "JJS_PROBLEM_DEST"}
    /\ \A k \in SpawnsOf("solution") :
          /\ trace[k].arg.cmd.args = << >>
          /\ DOMAIN trace[k].arg.cmd.env =
                {"JJS_PROBLEM_SRC", "JJS_PROBLEM_DEST"}

\* two tests ran the same testgen with different arguments, and the primary
\* solution ran for both
C16_Witness ==
    /\ Len(cfg.tests) = 2
    /\ cfg.tests[1].gen = [kind |-> "Generate", testgen |-> "gen",
                           args |-> << "small" >>]
    /\ cfg.tests[2].gen = [kind |-> "Generate", testgen |-> "gen",
                           args |-> << "big" >>]
    /\ Cardinality(SpawnsOf("testgen")) = 2
    /\ Cardinality(SpawnsOf("solution")) = 2

\* C17: the limits of every produced Test are the problem's default limits
\* merged with that test's override limits: a field present in the override
\* takes the override's value, a field absent in the override takes the
\* problem default, and a field absent in both is absent.
C17_TestLimits ==
    /\ \A i \in 1..Len(out) :
          \A f \in LimitFields :
              out[i].limits[f] = IF IsSome(cfg.tests[i].limits[f])
                                 THEN cfg.tests[i].limits[f]
                                 ELSE cfg.limits[f]
    /\ pc \in {"tests_answer", "tests_run"} =>
          \A f \in LimitFields :
              test_info.val.limits[f] = IF IsSome(cfg.tests[idx + 1].limits[f])
                                        THEN cfg.tests[idx + 1].limits[f]
                                        ELSE cfg.limits[f]

\* two Test records: one overrides memory and process_count and inherits
\* time, the other overrides time, inherits memory and has no process_count
C17_Witness ==
    /\ Len(out) = 2
    /\ out[1].limits = [memory |-> Some(2), time |-> Some(1),
                        process_count |-> Some(2)]
    /\ out[2].limits = [memory |-> Some(1), time |-> Some(2),
                        process_count |-> None]
    /\ cfg.limits = [memory |-> Some(1), time |-> Some(1),
                     process_count |-> None]

\* the output paths named after the stems of the sources of a stage
StemPaths(prefix, sources) ==
    { prefix \o sources[k].stem : k \in DOMAIN sources }

\* every build of a stage goes into <prefix><stem of a discovered source>
ArtifactsNamedByStem ==
    /\ \A k \in BuildStarts("assets/sol-") :
          trace[k].arg \in StemPaths("assets/sol-", problem_dir.solutions)
    /\ \A k \in BuildStarts("assets/testgen-") :
          trace[k].arg \in StemPaths("assets/testgen-", problem_dir.generators)
    /\ \A k \in BuildStarts("assets/module-") :
          trace[k].arg \in StemPaths("assets/module-", problem_dir.modules)

\* a source whose name has no stem or is not text makes build return an
\* error, it does not crash
NameErrorsReturned ==
    /\ result.status = "panic" =>
          result.kind \notin {"utf8 error",
                              "called Option::unwrap() on a None value"}
    /\ \A k \in DOMAIN trace :
          trace[k].op = "create_dir_all" =>
              \A n \in NonUtf8Names :
                  trace[k].arg \notin {"assets/sol-" \o n, "assets/testgen-" \o n,
                                       "assets/module-" \o n}

\* C19: for every discovered source of every stage (solutions, testgens,
\* modules) the identifier is the stem of the file name, the artifact is
\* built into assets/sol-<id>, assets/testgen-<id> or assets/module-<id>
\* with that identifier, and a path with a missing stem or a non-text name
\* yields a configuration error returned by build rather than a crash.
C19_StemIdentifiers ==
    /\ ArtifactsNamedByStem
    /\ NameErrorsReturned

\* C20: when a stage fails, the build performs no further write, delete or
\* overwrite in the output directory: everything produced before the
\* failure, the input file and the possibly partial output file of the
\* failing test included, stays exactly as it was at the moment of failure;
\* nothing is deleted by the failing step either.
C20_NoCleanupAfterFailure ==
    [][/\ \A p \in DOMAIN files : p \in DOMAIN files'
       /\ result.status \in {"err", "panic"} => files' = files
       /\ Finished => files' = files]_vars

\* the primary solution failed on test 2: the artifacts, test 1's files,
\* test 2's input and its partial answer are all in the output directory
C20_Witness ==
    /\ result.status = "err"
    /\ result.kind = "solution_failed"
    /\ Returned
    /\ idx = 1
    /\ {InName(1), OutName(1), InName(2), OutName(2)} \subseteq DOMAIN files
    /\ files[OutName(2)] = "answer("
    /\ "assets/sol-main" \in DOMAIN files
    /\ ~ManifestWritten

----------------------------------------------------------------------------
(* svaluer: TermDriver                                                     *)

TestIds == 1..MaxTestId

\* the valuer_api::ValuerResponse values the valuer sends
ValuerResponses ==
    {[kind |-> "Finish"], [kind |-> "LiveScore"], [kind |-> "JudgeLog"]} \cup
    [kind : {"Test"}, test_id : TestIds, live : BOOLEAN]

\* what the user types when asked for the next finished test: a number
\* (0 does not parse as NonZeroU32), or the read fails
NextFinishedInputs ==
    [kind : {"number"}, n : 0..(MaxTestId + 1)] \cup {[kind |-> "io_error"]}

\* what the user types when asked for a test status, or the read fails
StatusInputs == {"true", "false", "maybe", "io_error"}

\* create_status
create_status(ok) == IF ok THEN "ok" ELSE "err"

\* self.current_tests.drain().next() / self.current_tests.remove(&tid):
\* the set without tid
take(tests, tid) == tests \ {tid}

InitTerm ==
    /\ current_tests = {}
    /\ full_judge_log = None
    /\ term_pc = "idle"
    /\ term_tid = 0
    /\ term_before = {}
    /\ term_ret = [call |-> "none"]
    /\ requested = << >>
    /\ reported = << >>
    /\ JsonIdle
    /\ MergeIdle
    /\ EntropyIdle
    /\ ScratchIdle
    /\ BuildIdle

\* TermDriver::send_command
Term_send_command ==
    /\ term_pc = "idle"
    /\ \E resp \in ValuerResponses :
         /\ resp.kind = "Test" => Len(requested) < MaxCommands
         /\ term_before' = current_tests
         /\ CASE resp.kind = "Finish" ->
                  \* self.full_judge_log.take().expect("full judge log missing")
                  /\ full_judge_log' = None
                  /\ IF IsSome(full_judge_log)
                     THEN /\ term_ret' = [call |-> "send_command", resp |-> resp,
                                          ret |-> "ok"]
                          /\ UNCHANGED term_pc
                     ELSE /\ term_ret' = [call |-> "send_command", resp |-> resp,
                                          ret |-> "panic"]
                          /\ term_pc' = "panic"
                  /\ UNCHANGED << current_tests, requested >>
              [] resp.kind = "Test" ->
                  LET not_dup == resp.test_id \notin current_tests
                  IN /\ current_tests' = current_tests \cup {resp.test_id}
                     /\ IF not_dup
                        THEN /\ requested' = Append(requested, resp.test_id)
                             /\ term_ret' = [call |-> "send_command",
                                             resp |-> resp, ret |-> "ok"]
                             /\ UNCHANGED term_pc
                        ELSE /\ term_ret' = [call |-> "send_command",
                                             resp |-> resp, ret |-> "panic"]
                             /\ term_pc' = "panic"
                             /\ UNCHANGED requested
                     /\ UNCHANGED full_judge_log
              [] OTHER ->
                  /\ term_ret' = [call |-> "send_command", resp |-> resp,
                                  ret |-> "ok"]
                  /\ UNCHANGED << current_tests, full_judge_log, term_pc,
                                  requested >>
    /\ UNCHANGED << term_tid, reported, mergeVars, entropyVars, scratchVars,
                    buildVars, jsonVars >>

\* TermDriver::poll_notification: the match on current_tests.len()
Term_poll_notification ==
    /\ term_pc = "idle"
    /\ term_before' = current_tests
    /\ CASE Cardinality(current_tests) = 0 ->
             /\ term_ret' = [call |-> "poll_notification", ret |-> "none"]
             /\ UNCHANGED << current_tests, term_pc, term_tid >>
         [] Cardinality(current_tests) = 1 ->
             LET tid == CHOOSE t \in current_tests : TRUE
             IN /\ current_tests' = take(current_tests, tid)
                /\ term_tid' = tid
                /\ term_pc' = "read_status"
                /\ UNCHANGED term_ret
         [] OTHER ->
             /\ term_pc' = "next_finished"
             /\ UNCHANGED << current_tests, term_tid, term_ret >>
    /\ UNCHANGED << full_judge_log, requested, reported, mergeVars,
                    entropyVars, scratchVars, buildVars, jsonVars >>

\* one turn of the loop around read_value("next finished test")
Term_next_finished ==
    /\ term_pc = "next_finished"
    /\ \E input \in NextFinishedInputs :
         CASE input.kind = "io_error" ->
                /\ term_ret' = [call |-> "poll_notification", ret |-> "err"]
                /\ term_pc' = "idle"
                /\ UNCHANGED << current_tests, term_tid >>
           [] input.kind = "number" /\ input.n \in current_tests ->
                /\ current_tests' = take(current_tests, input.n)
                /\ term_tid' = input.n
                /\ term_pc' = "read_status"
                /\ UNCHANGED term_ret
           [] OTHER ->
                \* not a number above 0, or a test that is not in the set:
                \* the user is asked again
                UNCHANGED << current_tests, term_tid, term_pc, term_ret >>
    /\ UNCHANGED << full_judge_log, term_before, requested, reported,
                    mergeVars, entropyVars, scratchVars, buildVars, jsonVars >>

\* read_status(tid): read_value until a bool was typed, then the notification
Term_read_status ==
    /\ term_pc = "read_status"
    /\ \E input \in StatusInputs :
         CASE input = "io_error" ->
                /\ term_ret' = [call |-> "poll_notification", ret |-> "err"]
                /\ term_pc' = "idle"
                /\ term_tid' = 0
                /\ UNCHANGED reported
           [] input \in {"true", "false"} ->
                LET tdn == [test_id |-> term_tid,
                            test_status |-> create_status(input = "true")]
                IN /\ reported' = Append(reported, tdn)
                   /\ term_ret' = [call |-> "poll_notification",
                                   ret |-> "some", val |-> tdn]
                   /\ term_pc' = "idle"
                   /\ term_tid' = 0
           [] OTHER ->
                UNCHANGED << term_ret, term_pc, term_tid, reported >>
    /\ UNCHANGED << current_tests, full_judge_log, term_before, requested,
                    mergeVars, entropyVars, scratchVars, buildVars, jsonVars >>

NextTerm ==
    \/ Term_send_command
    \/ Term_poll_notification
    \/ Term_next_finished
    \/ Term_read_status

SpecTerm == InitTerm /\ [][NextTerm]_vars

\* how often test t was requested / reported
TimesRequested(t) == Cardinality({ k \in DOMAIN requested : requested[k] = t })
TimesReported(t) ==
    Cardinality({ k \in DOMAIN reported : reported[k].test_id = t })

\* between two calls the set holds the tests requested and not yet reported
SetIsOutstanding ==
    term_pc = "idle" =>
        current_tests = { t \in TestIds : TimesRequested(t) > TimesReported(t) }

\* a test is reported at most once per request, never before it was requested
ReportedAfterRequest ==
    \A t \in TestIds : TimesReported(t) <= TimesRequested(t)

\* what the calls answer: the assertion on a duplicate Test command, None on
\* an empty set, otherwise a notification for a member, which is removed
CallsAnswer ==
    /\ (/\ term_ret.call = "send_command"
        /\ term_ret.resp.kind = "Test"
        /\ term_pc \in {"idle", "panic"}) =>
          (term_ret.ret = "panic" <=> term_ret.resp.test_id \in term_before)
    /\ (term_ret.call = "poll_notification" /\ term_pc = "idle") =>
          /\ term_ret.ret = "none" <=> term_before = {}
          /\ term_ret.ret = "some" =>
                /\ term_ret.val.test_id \in term_before
                /\ term_ret.val.test_id \notin current_tests
                /\ current_tests = term_before \ {term_ret.val.test_id}

\* C21: TermDriver keeps current_tests equal to the tests requested by a
\* Test command and not yet reported: a Test command for a test already in
\* the set violates the assertion, poll_notification returns None when the
\* set is empty and otherwise a notification only for a test in the set,
\* removing it, so each requested test is reported at most once and never
\* before it was requested.
C21_CurrentTestsAreOutstanding ==
    /\ SetIsOutstanding
    /\ ReportedAfterRequest
    /\ CallsAnswer


\* ---------------------------------------------------------------------------
\* svaluer: JsonDriver (main_json_mode) and its reader thread
\* ---------------------------------------------------------------------------

\* the lines the invoker can write to standard input, named by what they hold
InputLines == {"problem_info", "test_done_1", "test_done_2", "garbage"}

WAIT_TIMEOUT == 100
TIMEOUT == 1000
SleepMillis == 100

\* enum Message
ProblemInfoMsg == [kind |-> "ProblemInfo"]

TestDoneNotify(tid) == [kind |-> "TestDoneNotify", test_id |-> tid]

Messages == {ProblemInfoMsg} \cup {TestDoneNotify(t) : t \in TestIds}

\* serde_json::from_str::<Message>: the empty buffer read_line leaves at the
\* end of input is no JSON value, like any malformed line
from_str(line) ==
    CASE line = "problem_info" -> [ok |-> TRUE, val |-> ProblemInfoMsg]
      [] line = "test_done_1"  -> [ok |-> TRUE, val |-> TestDoneNotify(1)]
      [] line = "test_done_2"  -> [ok |-> TRUE, val |-> TestDoneNotify(2)]
      [] OTHER                 -> [ok |-> FALSE]

\* Sender::send on the unbounded channel: the message goes behind the others
chan_send_front(q, m) == << m >> \o q

chan_send(q, m) == Append(q, m)

\* the problem_info loop gives up once more than TIMEOUT has passed
timed_out(ms) == ms > TIMEOUT

\* poll_notification's match on the polled message
poll_notification_result(polled) ==
    IF ~polled.some
    THEN [ret |-> "none", val |-> None]
    ELSE IF polled.val.kind = "TestDoneNotify"
         THEN [ret |-> "some", val |-> polled]
         ELSE [ret |-> "err", val |-> None]

StdinContents ==
    UNION {[1..n -> InputLines] : n \in 0..MaxLines}

\* JsonDriver::new: the channel is empty and the reader thread is spawned
InitJson ==
    /\ stdin_rest \in StdinContents
    /\ stdin_end \in {"eof", "io_error"}
    /\ lines_read = << >>
    /\ reader_pc = "read_line"
    /\ buf = ""
    /\ notify = None
    /\ chan = << >>
    /\ receiver_alive = TRUE
    /\ delivered = << >>
    /\ json_pc = "idle"
    /\ elapsed = 0
    /\ json_ret = [call |-> "none"]
    /\ TermIdle
    /\ MergeIdle
    /\ EntropyIdle
    /\ ScratchIdle
    /\ BuildIdle

\* json_driver_thread_func: buf.clear() and read_line; an io error breaks the
\* loop, the end of input is Ok(0) with an empty buffer
Reader_read_line ==
    /\ reader_pc = "read_line"
    /\ IF stdin_rest /= << >>
       THEN /\ buf' = Head(stdin_rest)
            /\ stdin_rest' = Tail(stdin_rest)
            /\ lines_read' = Append(lines_read, Head(stdin_rest))
            /\ reader_pc' = "from_str"
       ELSE IF stdin_end = "io_error"
            THEN /\ buf' = ""
                 /\ reader_pc' = "done"
                 /\ UNCHANGED << stdin_rest, lines_read >>
            ELSE /\ buf' = ""
                 /\ reader_pc' = "from_str"
                 /\ UNCHANGED << stdin_rest, lines_read >>
    /\ UNCHANGED << stdin_end, notify, chan, receiver_alive, delivered,
                    json_pc, elapsed, json_ret >>
    /\ UNCHANGED << termVars, mergeVars, entropyVars, scratchVars, buildVars >>

\* json_driver_thread_func: the match on from_str; Err continues the loop
Reader_from_str ==
    /\ reader_pc = "from_str"
    /\ LET r == from_str(buf)
       IN IF r.ok
          THEN /\ notify' = Some(r.val)
               /\ reader_pc' = "send"
          ELSE /\ notify' = None
               /\ reader_pc' = "read_line"
    /\ UNCHANGED << stdin_rest, stdin_end, lines_read, buf, chan,
                    receiver_alive, delivered, json_pc, elapsed, json_ret >>
    /\ UNCHANGED << termVars, mergeVars, entropyVars, scratchVars, buildVars >>

\* json_driver_thread_func: chan.send; it fails only when the receiver is gone
Reader_send ==
    /\ reader_pc = "send"
    /\ IF receiver_alive
       THEN /\ chan' = chan_send(chan, notify.val)
            /\ reader_pc' = "read_line"
       ELSE /\ chan' = chan
            /\ reader_pc' = "done"
    /\ notify' = None
    /\ UNCHANGED << stdin_rest, stdin_end, lines_read, buf, receiver_alive,
                    delivered, json_pc, elapsed, json_ret >>
    /\ UNCHANGED << termVars, mergeVars, entropyVars, scratchVars, buildVars >>

ReaderNext ==
    \/ Reader_read_line
    \/ Reader_from_str
    \/ Reader_send

\* JsonDriver::poll: the oldest message of the channel, None after WAIT_TIMEOUT
poll(q) == IF q = << >> THEN None ELSE Some(Head(q))

\* JsonDriver::problem_info: begin_time is taken
Json_problem_info ==
    /\ json_pc = "idle"
    /\ json_pc' = "problem_info"
    /\ elapsed' = 0
    /\ json_ret' = [call |-> "problem_info", ret |-> "running",
                    before |-> Len(delivered)]
    /\ UNCHANGED << stdin_rest, stdin_end, lines_read, reader_pc, buf, notify,
                    chan, receiver_alive, delivered >>
    /\ UNCHANGED << termVars, mergeVars, entropyVars, scratchVars, buildVars >>

\* JsonDriver::problem_info: one turn of the loop, and the match after it
Json_problem_info_loop ==
    /\ json_pc = "problem_info"
    /\ LET polled == poll(chan)
       IN IF polled.some
          THEN /\ chan' = Tail(chan)
               /\ delivered' = Append(delivered, polled.val)
               /\ json_pc' = "idle"
               /\ elapsed' = elapsed
               /\ json_ret' =
                    [call |-> "problem_info",
                     ret |-> IF polled.val.kind = "ProblemInfo"
                             THEN "ok" ELSE "err_test_done",
                     before |-> json_ret.before]
          ELSE /\ UNCHANGED << chan, delivered >>
               /\ IF timed_out(elapsed + WAIT_TIMEOUT)
                  THEN /\ json_pc' = "idle"
                       /\ elapsed' = elapsed + WAIT_TIMEOUT
                       /\ json_ret' = [call |-> "problem_info",
                                       ret |-> "err_timeout",
                                       before |-> json_ret.before]
                  ELSE /\ json_pc' = "problem_info"
                       /\ elapsed' = elapsed + WAIT_TIMEOUT + SleepMillis
                       /\ UNCHANGED json_ret
    /\ UNCHANGED << stdin_rest, stdin_end, lines_read, reader_pc, buf, notify,
                    receiver_alive >>
    /\ UNCHANGED << termVars, mergeVars, entropyVars, scratchVars, buildVars >>

\* JsonDriver::send_command: the command is printed; the channel is not used
Json_send_command ==
    /\ json_pc = "idle"
    /\ \E outcome \in {"ok", "err_serialize", "err_flush"} :
          json_ret' = [call |-> "send_command", ret |-> outcome]
    /\ UNCHANGED << stdin_rest, stdin_end, lines_read, reader_pc, buf, notify,
                    chan, receiver_alive, delivered, json_pc, elapsed >>
    /\ UNCHANGED << termVars, mergeVars, entropyVars, scratchVars, buildVars >>

\* JsonDriver::poll_notification
Json_poll_notification ==
    /\ json_pc = "idle"
    /\ LET polled == poll(chan)
           r == poll_notification_result(polled)
       IN /\ chan' = IF polled.some THEN Tail(chan) ELSE chan
          /\ delivered' = IF polled.some
                          THEN Append(delivered, polled.val)
                          ELSE delivered
          /\ json_ret' = [call |-> "poll_notification", ret |-> r.ret,
                          val |-> r.val, before |-> Len(delivered),
                          available |-> Len(chan)]
    /\ UNCHANGED << stdin_rest, stdin_end, lines_read, reader_pc, buf, notify,
                    receiver_alive, json_pc, elapsed >>
    /\ UNCHANGED << termVars, mergeVars, entropyVars, scratchVars, buildVars >>

\* main_json_mode returns: the JsonDriver and with it the Receiver is dropped
Json_drop ==
    /\ json_pc = "idle"
    /\ receiver_alive
    /\ receiver_alive' = FALSE
    /\ chan' = << >>
    /\ json_pc' = "dropped"
    /\ UNCHANGED << stdin_rest, stdin_end, lines_read, reader_pc, buf, notify,
                    delivered, elapsed, json_ret >>
    /\ UNCHANGED << termVars, mergeVars, entropyVars, scratchVars, buildVars >>

NextJson ==
    \/ Reader_read_line
    \/ Reader_from_str
    \/ Reader_send
    \/ Json_problem_info
    \/ Json_problem_info_loop
    \/ Json_send_command
    \/ Json_poll_notification
    \/ Json_drop

SpecJson == InitJson /\ [][NextJson]_vars

\* the reader is a thread of its own: the scheduler keeps running it
SpecJsonFair == SpecJson /\ WF_vars(ReaderNext)

\* C22: the reader thread stops when the receiving side of the channel is
\* closed: once the JsonDriver is dropped the thread eventually terminates,
\* whatever is left on standard input, malformed lines and the end of input
\* included.
C22_ReaderStops == (~receiver_alive) ~> (reader_pc = "done")


RECURSIVE WellFormed(_)
\* the messages a sequence of lines holds, malformed lines left out
WellFormed(lines) ==
    IF lines = << >>
    THEN << >>
    ELSE LET r == from_str(Head(lines))
         IN (IF r.ok THEN << r.val >> ELSE << >>) \o WellFormed(Tail(lines))

\* the message the reader thread holds between read_line and send
InHand ==
    IF reader_pc = "send"
    THEN << notify.val >>
    ELSE IF reader_pc = "from_str" /\ from_str(buf).ok
         THEN << from_str(buf).val >>
         ELSE << >>

\* delivered, queued and held messages are the well-formed lines, in order
DeliveredInOrder ==
    /\ IsPrefix(delivered, WellFormed(lines_read))
    /\ receiver_alive =>
          delivered \o chan \o InHand = WellFormed(lines_read)

\* what a finished problem_info call answered
ProblemInfoAnswer ==
    /\ json_pc = "problem_info" => elapsed <= TIMEOUT
    /\ (json_ret.call = "problem_info" /\ json_pc = "idle") =>
          /\ json_ret.ret \in {"ok", "err_test_done", "err_timeout"}
          /\ json_ret.ret = "ok" =>
                /\ Len(delivered) = json_ret.before + 1
                /\ delivered[json_ret.before + 1].kind = "ProblemInfo"
          /\ json_ret.ret = "err_test_done" =>
                /\ Len(delivered) = json_ret.before + 1
                /\ delivered[json_ret.before + 1].kind = "TestDoneNotify"
          /\ json_ret.ret = "err_timeout" =>
                /\ Len(delivered) = json_ret.before
                /\ elapsed > TIMEOUT

\* what a poll_notification call answered
PollNotificationAnswer ==
    json_ret.call = "poll_notification" =>
       /\ json_ret.ret \in {"none", "some", "err"}
       /\ json_ret.ret = "none" <=> json_ret.available = 0
       /\ json_ret.ret = "none" => Len(delivered) = json_ret.before
       /\ json_ret.ret = "some" =>
             /\ Len(delivered) = json_ret.before + 1
             /\ delivered[json_ret.before + 1].kind = "TestDoneNotify"
             /\ json_ret.val = Some(delivered[json_ret.before + 1])
       /\ json_ret.ret = "err" =>
             /\ Len(delivered) = json_ret.before + 1
             /\ delivered[json_ret.before + 1].kind = "ProblemInfo"

\* C23: JsonDriver delivers the well-formed messages read from standard
\* input in the order they were read, skipping malformed lines without
\* losing or reordering later messages; problem_info succeeds only if the
\* message it receives is a ProblemInfo, fails on a TestDoneNotification and
\* fails with a timeout when nothing arrives; poll_notification returns None
\* when no message is available, the notification when the next message is
\* a TestDoneNotification and an error when it is a ProblemInfo.
C23_JsonDriverDelivery ==
    /\ DeliveredInOrder
    /\ ProblemInfoAnswer
    /\ PollNotificationAnswer

\* a malformed line was skipped between two messages, both delivered in
\* order: problem_info succeeded, poll_notification returned the notification
C23_Witness ==
    /\ lines_read = << "problem_info", "garbage", "test_done_1" >>
    /\ delivered = << ProblemInfoMsg, TestDoneNotify(1) >>
    /\ json_ret.call = "poll_notification"
    /\ json_ret.ret = "some"
    /\ receiver_alive

\* problem_info gave up with a timeout: nothing had arrived
C23_WitnessTimeout ==
    /\ json_ret.call = "problem_info"
    /\ json_ret.ret = "err_timeout"
    /\ json_pc = "idle"


\* ---------------------------------------------------------------------------
\* build(): termination and final states
\* ---------------------------------------------------------------------------

ManifestWrites == FileOpsAt("write", ManifestPath)

\* the turns of the build_tests loop taken for test i
TurnsOfTest(i) ==
    { k \in EventsNamed("GenerateTest") : trace[k].arg.test_id = i }

EachTestAtMostOnce ==
    /\ \A k \in EventsNamed("GenerateTest") :
          trace[k].arg.test_id \in 1..Len(cfg.tests)
    /\ \A i \in 1..Len(cfg.tests) : Cardinality(TurnsOfTest(i)) <= 1

\* position of a program counter in the statement sequence of build()
StageRank(at) ==
    CASE at \in {"modules", "modules_loop"} -> 1
      [] at \in {"solutions", "solutions_loop"} -> 2
      [] at \in {"testgens", "testgens_loop"} -> 3
      [] at = "checker" -> 4
      [] at = "primary" -> 5
      [] at \in {"tests", "tests_loop", "tests_answer", "tests_run"} -> 6
      [] at = "copy_raw" -> 7
      [] at = "copy_valuer" -> 8
      [] at = "manifest" -> 9
      [] at \in {"returned", "aborted"} -> 10

\* a step never goes back to an earlier stage nor to an earlier test
NeverBack ==
    /\ StageRank(pc') >= StageRank(pc)
    /\ (pc \in {"tests_loop", "tests_answer", "tests_run"}
          /\ pc' \in {"tests_loop", "tests_answer", "tests_run"}) =>
          idx' >= idx
    /\ Finished => UNCHANGED << pc, result, files >>

Success ==
    /\ Returned
    /\ result.status = "ok"
    /\ ManifestWritten
    /\ files[ManifestPath] = to_string(Problem)
    /\ Cardinality(ManifestWrites) = 1

FailureNoManifest ==
    /\ Returned
    /\ result.status = "err"
    /\ ~ManifestWritten

\* the write of manifest.json itself failed after the file was created
FailurePartialManifest ==
    /\ Returned
    /\ result.status = "err"
    /\ result.stage = "manifest"
    /\ ManifestWritten
    /\ files[ManifestPath] = truncated(to_string(Problem))
    /\ Cardinality(ManifestWrites) = 1

\* an expect/unwrap panicked: no error is returned
Panicked ==
    /\ pc = "aborted"
    /\ result.status = "panic"
    /\ ~ManifestWritten

\* the number of the final states the build is in
FinalStatesHeld(states) == Cardinality({k \in DOMAIN states : states[k]})

\* C24 as stated: provided every external step terminates, every run of
\* build ends in exactly one of two final states, success with manifest.json
\* written once or failure with an error returned and no manifest written,
\* processes each declared test at most once and never loops back to an
\* earlier stage. Stated for the finished build, which a finite run reaches.
C24_TwoFinalStates ==
    /\ Finished => FinalStatesHeld(<< Success, FailureNoManifest >>) = 1
    /\ EachTestAtMostOnce
    /\ IsPrefix(started, StageOrder)

\* C24: provided every external step terminates, every run of build
\* terminates, in exactly one of four final states: success with
\* manifest.json written once; failure with an error returned and no
\* manifest written; failure of the write of manifest.json itself, with the
\* error returned and a partial manifest.json left behind; or a panic
\* (expect/unwrap) with no error returned and no manifest written. Before
\* that no manifest exists, each declared test is processed at most once and
\* no step goes back to an earlier stage or test.
C24_BuildTerminates ==
    /\ <>Finished
    /\ [](/\ Finished =>
               FinalStatesHeld(<< Success, FailureNoManifest,
                                  FailurePartialManifest, Panicked >>) = 1
          /\ ~Finished => (result.status = "running" /\ ~ManifestWritten)
          /\ EachTestAtMostOnce
          /\ IsPrefix(started, StageOrder))
    /\ [][NeverBack]_vars

\* a build of two declared tests ended in success, each test taken once
C24_Witness ==
    /\ Success
    /\ Len(cfg.tests) = 2
    /\ \A i \in 1..2 : Cardinality(TurnsOfTest(i)) = 1

C24_WitnessPartialManifest == FailurePartialManifest

C24_WitnessPanicked == Panicked

====
